---- MODULE Spec2Model ----
(***************************************************************************)
(* A model of the marinade bot (cli/bot-cli) and of the transaction        *)
(* builder it submits through (sdk/offchain-common).                       *)
(*                                                                         *)
(*  - SpecBuilder: the TransactionBuilder as an object, driven by any      *)
(*    sequence of its public calls.                                        *)
(*  - Spec: one do-work tick (DoWorkOptions::process) against a ledger,    *)
(*    with the stake-delta, update-price and merge-stakes passes.          *)
(***************************************************************************)
EXTENDS Integers, Sequences, FiniteSets, TLC

VARIABLES
    builder,    \* the TransactionBuilder
    last,       \* the last call made on the builder and what it returned
    nadded,     \* number of instructions handed to add_instruction so far
    ledger,     \* the chain: marinade State, validator list, stake list, reserve
    clock,      \* the Clock sysvar and the epoch schedule
    opts,       \* the command line: command, limit, simulate
    bot,        \* the bot process: its position and its local variables
    now,        \* seconds since the process started
    sub,        \* the last transaction the bot submitted, and what came of it
    tally       \* what happened to the submissions so far

vars == <<builder, last, nadded, ledger, clock, opts, bot, now, sub, tally>>

botvars == <<ledger, clock, opts, bot, now, sub, tally>>

(***************************************************************************)
(* Bounds of the builder model.                                            *)
(***************************************************************************)
MaxAdds == 3        \* add_instruction calls per behaviour
MaxCeiling == 6     \* largest max_transaction_size tried (0 = unlimited)
MaxPacks == 3       \* explicit commit() calls are made while fewer packs are queued

(***************************************************************************)
(* Sequence helpers.                                                       *)
(***************************************************************************)
RECURSIVE SumSeq(_)
SumSeq(s) == IF s = <<>> THEN 0 ELSE Head(s) + SumSeq(Tail(s))

RECURSIVE Flatten(_)
Flatten(ss) == IF ss = <<>> THEN <<>> ELSE Head(ss) \o Flatten(Tail(ss))

Range(s) == {s[i] : i \in 1..Len(s)}

\* the element of a set of one element: each value of a chain of calls is
\* worked out once
Only(S) == CHOOSE x \in S : TRUE

(***************************************************************************)
(* TransactionBuilder.                                                     *)
(*                                                                         *)
(* An instruction is [serial, size, account, is_signer]; its description   *)
(* is the string that was passed with it, modelled by the serial number of *)
(* the add_instruction call. A pack is a sequence of [ins, desc] pairs.    *)
(***************************************************************************)
FeePayer == 0

\* The instructions handed to add_instruction: serialized size (scaled), the
\* account the instruction names, and whether that account must sign.
InstructionTemplates ==
    { [size |-> 1, account |-> FeePayer, is_signer |-> TRUE],
      [size |-> 2, account |-> 1, is_signer |-> FALSE],
      [size |-> 1, account |-> 2, is_signer |-> TRUE],
      [size |-> 2, account |-> 3, is_signer |-> TRUE] }

\* the key of the keypair that new_signer generates
GeneratedKey == 3

\* the keys of the signers handed to add_signer
SignerKeys ==
    {t.account : t \in {u \in InstructionTemplates : u.is_signer}} \ {GeneratedKey}

\* no instruction: the calls other than add_instruction
NoArg == [serial |-> 0, size |-> 0, account |-> FeePayer, is_signer |-> FALSE]

NoPack == [is_some |-> FALSE, pack |-> <<>>]

SomePack(p) == [is_some |-> TRUE, pack |-> p]

NoneTx == [is_some |-> FALSE, instructions |-> <<>>, instruction_descriptions |-> <<>>]

InstructionsOf(pack) == [i \in 1..Len(pack) |-> pack[i].ins]

DescriptionsOf(pack) == [i \in 1..Len(pack) |-> pack[i].desc]

\* bincode::serialize(Transaction::new_with_payer(instructions, fee_payer)).len():
\* the compiled message holds every distinct account key once (the fee payer
\* always) and then the instructions, after a header that is there even when
\* there is no instruction.
SerializedLen(instructions) ==
    1 + Cardinality({FeePayer} \cup {instructions[i].account : i \in 1..Len(instructions)})
    + SumSeq([i \in 1..Len(instructions) |-> instructions[i].size])

\* SignatureBuilder::signers_for_transaction: the fee payer and every account
\* that must sign have their signer in the builder
signers_for_transaction(signature_builder, instructions) ==
    ({FeePayer} \cup {instructions[i].account :
                        i \in {j \in 1..Len(instructions) : instructions[j].is_signer}})
        \subseteq signature_builder

\* PreparedTransaction::new
PreparedTransaction(instructions, descriptions) ==
    [is_some |-> TRUE, instructions |-> instructions,
     instruction_descriptions |-> descriptions]

\* TransactionBuilder::new
NewBuilder(max_size) ==
    [instruction_packs |-> <<>>,
     current_instruction_pack |-> NoPack,
     signature_builder |-> {FeePayer},
     max_transaction_size |-> max_size]

\* The result of a call: the builder afterwards, "ok" / an error / "panic",
\* and the transaction returned (build calls only).
Ret(b, status, tx) == [b |-> b, status |-> status, tx |-> tx]

\* A slip: only the fee payer's signature is looked for.
check_fee_payer_only(b, ins) ==
    IF ins.is_signer /\ ins.account = FeePayer /\ ins.account \notin b.signature_builder
    THEN "UnknownSigner" ELSE "ok"

check_signers(b, ins) ==
    IF ins.is_signer /\ ins.account \notin b.signature_builder
    THEN "UnknownSigner" ELSE "ok"

inside_transaction(b) == b.current_instruction_pack.is_some

is_empty(b) ==
    /\ (IF b.current_instruction_pack.is_some
        THEN b.current_instruction_pack.pack = <<>> ELSE TRUE)
    /\ b.instruction_packs = <<>>

\* A slip: the signer takes the place of those added before.
add_signer_alone(b, key) == [b EXCEPT !.signature_builder = {key}]

add_signer(b, key) == [b EXCEPT !.signature_builder = @ \cup {key}]

new_signer(b) == [b EXCEPT !.signature_builder = @ \cup {GeneratedKey}]

\* Some(PreparedTransaction::new(..).expect("Signature keys must be checked
\* when instruction added")), `b` being the builder after the call
Prepared(b, instructions, descriptions) ==
    IF signers_for_transaction(b.signature_builder, instructions)
    THEN Ret(b, "ok", PreparedTransaction(instructions, descriptions))
    ELSE Ret(b, "panic", NoneTx)

\* A slip: begin with a pack open starts a new one in its place.
begin_anew(b) ==
    Ret([b EXCEPT !.current_instruction_pack = SomePack(<<>>)], "ok", NoneTx)

begin(b) ==
    IF b.current_instruction_pack.is_some
    THEN Ret(b, "panic", NoneTx)
    ELSE Ret([b EXCEPT !.current_instruction_pack = SomePack(<<>>)], "ok", NoneTx)

commit(b) ==
    IF ~b.current_instruction_pack.is_some
    THEN Ret(b, "panic", NoneTx)
    ELSE Ret([b EXCEPT !.instruction_packs = Append(@, b.current_instruction_pack.pack),
                       !.current_instruction_pack = NoPack], "ok", NoneTx)

\* A slip: the open pack is closed like a committed one.
rollback_keeps_pack(b) ==
    IF ~b.current_instruction_pack.is_some
    THEN Ret(b, "panic", NoneTx)
    ELSE Ret([b EXCEPT !.instruction_packs = Append(@, b.current_instruction_pack.pack),
                       !.current_instruction_pack = NoPack], "ok", NoneTx)

rollback(b) ==
    IF ~b.current_instruction_pack.is_some
    THEN Ret(b, "panic", NoneTx)
    ELSE Ret([b EXCEPT !.current_instruction_pack = NoPack], "ok", NoneTx)

\* Vec::pop
Pop(pack) == SubSeq(pack, 1, Len(pack) - 1)

\* A slip: when the instruction does not fit, the pair pushed is left in the
\* pack, and a pack opened by the call is left open.
add_instruction_without_undo(b, ins, desc) ==
    IF check_signers(b, ins) # "ok" THEN Ret(b, "UnknownSigner", NoneTx)
    ELSE
      LET add_transaction == ~inside_transaction(b)
          b1 == IF add_transaction THEN begin(b).b ELSE b
          current == Append(b1.current_instruction_pack.pack, [ins |-> ins, desc |-> desc])
          pushed == [b1 EXCEPT !.current_instruction_pack = SomePack(current)]
          too_big == /\ b.max_transaction_size > 0
                     /\ SerializedLen(InstructionsOf(current)) > b.max_transaction_size
      IN IF too_big THEN Ret(pushed, "TooBigTransaction", NoneTx)
         ELSE Ret(IF add_transaction THEN commit(pushed).b ELSE pushed, "ok", NoneTx)

\* A slip: the pack opened by the call is not committed.
add_instruction_without_commit(b, ins, desc) ==
    IF check_signers(b, ins) # "ok" THEN Ret(b, "UnknownSigner", NoneTx)
    ELSE
      LET add_transaction == ~inside_transaction(b)
          b1 == IF add_transaction THEN begin(b).b ELSE b
          current == Append(b1.current_instruction_pack.pack, [ins |-> ins, desc |-> desc])
          pushed == [b1 EXCEPT !.current_instruction_pack = SomePack(current)]
          too_big == /\ b.max_transaction_size > 0
                     /\ SerializedLen(InstructionsOf(current)) > b.max_transaction_size
      IN IF too_big
         THEN Ret(IF add_transaction THEN rollback(pushed).b
                  ELSE [pushed EXCEPT !.current_instruction_pack = SomePack(Pop(current))],
                  "TooBigTransaction", NoneTx)
         ELSE Ret(pushed, "ok", NoneTx)

add_instruction(b, ins, desc) ==
    IF check_signers(b, ins) # "ok" THEN Ret(b, "UnknownSigner", NoneTx)
    ELSE
      LET add_transaction == ~inside_transaction(b)
          b1 == IF add_transaction THEN begin(b).b ELSE b
          current == Append(b1.current_instruction_pack.pack, [ins |-> ins, desc |-> desc])
          pushed == [b1 EXCEPT !.current_instruction_pack = SomePack(current)]
          too_big == /\ b.max_transaction_size > 0
                     /\ SerializedLen(InstructionsOf(current)) > b.max_transaction_size
      IN IF too_big
         THEN \* rollback() of the pack opened by this call, or pop() of the pair
              Ret(IF add_transaction THEN rollback(pushed).b
                  ELSE [pushed EXCEPT !.current_instruction_pack = SomePack(Pop(current))],
                  "TooBigTransaction", NoneTx)
         ELSE Ret(IF add_transaction THEN commit(pushed).b ELSE pushed, "ok", NoneTx)

\* the assert! at the head of build_next and build_next_combined
NotCommitted(b) ==
    b.current_instruction_pack.is_some /\ b.current_instruction_pack.pack # <<>>

\* A slip: the pack committed last is taken first.
build_next_newest(b) ==
    IF NotCommitted(b) THEN Ret(b, "panic", NoneTx)
    ELSE IF b.instruction_packs # <<>>
    THEN LET pack == b.instruction_packs[Len(b.instruction_packs)]
         IN Prepared([b EXCEPT !.instruction_packs = SubSeq(@, 1, Len(@) - 1)],
                     InstructionsOf(pack), DescriptionsOf(pack))
    ELSE Ret(b, "ok", NoneTx)

build_next(b) ==
    IF NotCommitted(b) THEN Ret(b, "panic", NoneTx)
    ELSE IF b.instruction_packs # <<>>
    THEN LET pack == Head(b.instruction_packs)
         IN Prepared([b EXCEPT !.instruction_packs = Tail(@)],
                     InstructionsOf(pack), DescriptionsOf(pack))
    ELSE Ret(b, "ok", NoneTx)

build_one(b) ==
    LET r == build_next(b)
    IN IF r.status = "ok" /\ r.tx.is_some /\ r.b.instruction_packs = <<>>
       THEN r ELSE Ret(r.b, "panic", NoneTx)

\* The while-let loop of build_next_combined: `transaction` is the last
\* accepted candidate; `instructions` and `descriptions` are extended with the
\* next pack before the candidate is measured.
RECURSIVE CombineLoop(_, _, _, _, _)
CombineLoop(instructions, descriptions, transaction, packs, max_size) ==
    IF packs = <<>>
    THEN [transaction |-> transaction, descriptions |-> descriptions, packs |-> packs]
    ELSE LET next_pack == Head(packs)
             instructions2 == instructions \o InstructionsOf(next_pack)
             descriptions2 == descriptions \o DescriptionsOf(next_pack)
         IN IF SerializedLen(instructions2) <= max_size
            THEN CombineLoop(instructions2, descriptions2, instructions2,
                             Tail(packs), max_size)
            ELSE [transaction |-> transaction, descriptions |-> descriptions2,
                  packs |-> packs]

\* A plausible slip: the rejected candidate is kept as the transaction.
CombineLoopKeepsRejected(instructions, descriptions, transaction, packs, max_size) ==
    IF packs = <<>>
    THEN [transaction |-> transaction, descriptions |-> descriptions, packs |-> packs]
    ELSE LET next_pack == Head(packs)
             instructions2 == instructions \o InstructionsOf(next_pack)
             descriptions2 == descriptions \o DescriptionsOf(next_pack)
         IN IF SerializedLen(instructions2) <= max_size
            THEN CombineLoop(instructions2, descriptions2, instructions2,
                             Tail(packs), max_size)
            ELSE [transaction |-> instructions2, descriptions |-> descriptions2,
                  packs |-> packs]

CombineFrom(instructions, descriptions, transaction, packs, max_size) ==
    CombineLoop(instructions, descriptions, transaction, packs, max_size)

\* A slip: the packs of the unit are left in the closed queue.
build_next_combined_peek(b) ==
    IF NotCommitted(b) THEN Ret(b, "panic", NoneTx)
    ELSE IF b.instruction_packs = <<>> THEN Ret(b, "ok", NoneTx)
    ELSE Prepared(b, InstructionsOf(Head(b.instruction_packs)),
                  DescriptionsOf(Head(b.instruction_packs)))

build_next_combined(b) ==
    IF NotCommitted(b) THEN Ret(b, "panic", NoneTx)
    ELSE IF b.instruction_packs = <<>> THEN Ret(b, "ok", NoneTx)
    ELSE IF b.max_transaction_size = 0
    THEN LET all == Flatten(b.instruction_packs)
         IN Prepared([b EXCEPT !.instruction_packs = <<>>],
                     InstructionsOf(all), DescriptionsOf(all))
    ELSE LET first == Head(b.instruction_packs)
             r == CombineFrom(InstructionsOf(first), DescriptionsOf(first),
                              InstructionsOf(first), Tail(b.instruction_packs),
                              b.max_transaction_size)
         IN Prepared([b EXCEPT !.instruction_packs = r.packs],
                     r.transaction, r.descriptions)

\* A slip: the iteration ends after its first unit.
combined_sequence_once(b, units) ==
    LET r == build_next_combined(b)
    IN [b |-> r.b, status |-> r.status,
        units |-> IF r.status = "ok" /\ r.tx.is_some THEN Append(units, r.tx) ELSE units]

\* `for transaction in builder.combined_sequence()`: CombinedSequence::next is
\* build_next_combined, and the loop ends when it returns None; `units` are
\* the transactions yielded so far.
RECURSIVE combined_sequence(_, _)
combined_sequence(b, units) ==
    LET r == build_next_combined(b)
    IN IF r.status # "ok" \/ ~r.tx.is_some
       THEN [b |-> r.b, status |-> r.status, units |-> units]
       ELSE combined_sequence(r.b, Append(units, r.tx))

(***************************************************************************)
(* The ledger. Amounts are lamports scaled down; list indexes are the      *)
(* on-chain indexes plus one. The on-chain program is not part of bot-cli: *)
(* what an accepted instruction does to the ledger follows the protocol's  *)
(* description (removal from the stake list is replace-with-last).         *)
(*                                                                         *)
(* A stake record is                                                       *)
(*   [stake_account, voter, status, stake, credits_observed,               *)
(*    last_update_epoch, last_update_delegated_lamports]                   *)
(* where status stands for what the stake program reports in this epoch:   *)
(*   "warming"     delegated, effective 0, all of it activating            *)
(*   "partial"     delegated, part effective and part activating           *)
(*   "active"      delegated, all of it effective                          *)
(*   "cooling"     deactivation epoch set, effective > 0                   *)
(*   "deactivated" deactivation epoch set, effective 0                     *)
(***************************************************************************)
Min(a, b) == IF a < b THEN a ELSE b

\* delegation.deactivation_epoch == Epoch::MAX
NotDeactivating(stake) == stake.status \in {"warming", "partial", "active"}

\* Delegation::stake_activating_and_deactivating(clock.epoch, stake_history)
stake_activating_and_deactivating(stake) ==
    CASE stake.status = "warming" ->
           [effective |-> 0, activating |-> stake.stake, deactivating |-> 0]
      [] stake.status = "partial" ->
           [effective |-> stake.stake - 1, activating |-> 1, deactivating |-> 0]
      [] stake.status = "active" ->
           [effective |-> stake.stake, activating |-> 0, deactivating |-> 0]
      [] stake.status = "cooling" ->
           [effective |-> stake.stake, activating |-> 0, deactivating |-> stake.stake]
      [] OTHER ->
           [effective |-> 0, activating |-> 0, deactivating |-> 0]

\* the largest u64, scaled down like the amounts
U64_MAX == 65535

\* A slip: the sum is worked out in u64, where it wraps around.
stake_delta_wrapping(state, reserve_balance) ==
    ((reserve_balance - state.rent_exempt_for_token_acc)
     + state.total_cooling_down - state.circulating_ticket_balance) % (U64_MAX + 1)

\* State::stake_delta(reserve_balance), over the State account `state`: an
\* i128, which holds every sum of four u64 terms
stake_delta(state, reserve_balance) ==
    (reserve_balance - state.rent_exempt_for_token_acc)
    + state.total_cooling_down - state.circulating_ticket_balance

\* ValidatorSystem::validator_stake_target(record, total_stake_target)
validator_stake_target(state, record, total_stake_target) ==
    IF state.total_validator_score = 0 THEN 0
    ELSE (2 * record.score * total_stake_target + state.total_validator_score)
         \div (2 * state.total_validator_score)

\* The State account as the ledger holds it.
StateOf(L) == L.state

\* List::remove: replace with last, count -= 1
RemoveSwapLast(list, index) ==
    LET n == Len(list)
    IN [i \in 1..(n - 1) |-> IF i = index THEN list[n] ELSE list[i]]

\* The instruction the bot builds: the indexes and accounts it names.
Instr(kind, validator_index, stake_index, stake_account, source_index, source_account) ==
    [kind |-> kind, validator_index |-> validator_index,
     stake_index |-> stake_index, stake_account |-> stake_account,
     source_index |-> source_index, source_account |-> source_account,
     extra_runs |-> 0]

NoInstr == Instr("none", 0, 0, 0, 0, 0)

stake_reserve(validator_index) == Instr("stake_reserve", validator_index, 0, 0, 0, 0)

deactivate_stake(stake_account, stake_index, validator_index) ==
    Instr("deactivate_stake", validator_index, stake_index, stake_account, 0, 0)

update_active(stake_account, stake_index, validator_index) ==
    Instr("update_active", validator_index, stake_index, stake_account, 0, 0)

update_deactivated(stake_account, stake_index) ==
    Instr("update_deactivated", 0, stake_index, stake_account, 0, 0)

merge_stakes(destination_stake, destination_stake_index, source_stake, source_stake_index, validator_index) ==
    Instr("merge_stakes", validator_index, destination_stake_index, destination_stake,
          source_stake_index, source_stake)

config_validator_system(extra_runs) ==
    [Instr("config_validator_system", 0, 0, 0, 0, 0) EXCEPT !.extra_runs = extra_runs]

\* The stake list holds `account` at `index`.
HoldsAt(L, index, account) ==
    index \in 1..Len(L.stakes) /\ L.stakes[index].stake_account = account

\* Every index the instruction names holds the account it names.
NamesMatch(L, ins) ==
    CASE ins.kind \in {"deactivate_stake", "update_active", "update_deactivated"} ->
           HoldsAt(L, ins.stake_index, ins.stake_account)
      [] ins.kind = "merge_stakes" ->
           /\ HoldsAt(L, ins.stake_index, ins.stake_account)
           /\ HoldsAt(L, ins.source_index, ins.source_account)
      [] OTHER -> TRUE

ValidatorNeed(L, validator_index) ==
    LET total_stake_target == L.state.total_active_balance + stake_delta(L.state, L.reserve)
        record == L.validators[validator_index]
    IN validator_stake_target(L.state, record, total_stake_target) - record.active_balance

\* A slip: a stake with some effective amount is taken as fully active.
MergeKindOfAnyEffective(stake) ==
    IF ~NotDeactivating(stake) THEN "none"
    ELSE IF stake_activating_and_deactivating(stake).effective = 0 THEN "ActivationEpoch"
    ELSE "FullyActive"

\* The mergeable kind of a stake, "none" when it cannot be merged.
MergeKindOf(stake) ==
    IF ~NotDeactivating(stake) THEN "none"
    ELSE IF stake_activating_and_deactivating(stake).effective = 0 THEN "ActivationEpoch"
    ELSE IF stake_activating_and_deactivating(stake).activating = 0 THEN "FullyActive"
    ELSE "none"

\* Whether the ledger can accept the instruction (it may still reject it).
LedgerAccepts(L, ins, epoch) ==
    /\ NamesMatch(L, ins)
    /\ ins.validator_index = 0 \/ ins.validator_index \in 1..Len(L.validators)
    /\ CASE ins.kind = "stake_reserve" ->
              /\ stake_delta(L.state, L.reserve) >= L.state.min_stake
              /\ ValidatorNeed(L, ins.validator_index) >= L.state.min_stake
              /\ \/ L.validators[ins.validator_index].last_stake_delta_epoch # epoch
                 \/ L.state.extra_stake_delta_runs > 0
         [] ins.kind = "deactivate_stake" ->
              /\ NotDeactivating(L.stakes[ins.stake_index])
              /\ L.stakes[ins.stake_index].voter
                     = L.validators[ins.validator_index].validator_account
              /\ stake_delta(L.state, L.reserve) < 0
              /\ ValidatorNeed(L, ins.validator_index) < 0
         [] ins.kind = "update_active" ->
              /\ NotDeactivating(L.stakes[ins.stake_index])
              /\ L.stakes[ins.stake_index].voter
                     = L.validators[ins.validator_index].validator_account
         [] ins.kind = "update_deactivated" ->
              L.stakes[ins.stake_index].status = "deactivated"
         [] ins.kind = "merge_stakes" ->
              /\ ins.stake_index # ins.source_index
              /\ MergeKindOf(L.stakes[ins.stake_index]) # "none"
              /\ MergeKindOf(L.stakes[ins.stake_index])
                     = MergeKindOf(L.stakes[ins.source_index])
              /\ L.stakes[ins.stake_index].voter = L.stakes[ins.source_index].voter
              /\ L.stakes[ins.stake_index].credits_observed
                     = L.stakes[ins.source_index].credits_observed
         [] OTHER -> TRUE

\* The ledger after it has accepted the instruction.
ApplyInstruction(L, ins, epoch) ==
    CASE ins.kind = "stake_reserve" ->
           LET v == ins.validator_index
               amount == Min(ValidatorNeed(L, v), stake_delta(L.state, L.reserve))
               again == L.validators[v].last_stake_delta_epoch = epoch
           IN [L EXCEPT
                 !.reserve = @ - amount,
                 !.state.total_active_balance = @ + amount,
                 !.state.extra_stake_delta_runs = IF again THEN @ - 1 ELSE @,
                 !.validators[v].active_balance = @ + amount,
                 !.validators[v].last_stake_delta_epoch = epoch,
                 !.stakes = Append(@, [stake_account |-> L.next_account,
                                       voter |-> L.validators[v].validator_account,
                                       status |-> "warming", stake |-> amount,
                                       credits_observed |-> 0,
                                       last_update_epoch |-> epoch,
                                       last_update_delegated_lamports |-> amount]),
                 !.next_account = @ + 1]
      [] ins.kind = "deactivate_stake" ->
           LET v == ins.validator_index
               i == ins.stake_index
               wanted == Min(-ValidatorNeed(L, v), -stake_delta(L.state, L.reserve))
               whole == L.stakes[i].last_update_delegated_lamports <= wanted
               amount == IF whole THEN L.stakes[i].last_update_delegated_lamports
                         ELSE wanted
               split == [L.stakes[i] EXCEPT
                           !.stake_account = L.next_account,
                           !.status = "cooling", !.stake = amount,
                           !.last_update_delegated_lamports = amount]
           IN [L EXCEPT
                 !.state.total_active_balance = @ - amount,
                 !.state.total_cooling_down = @ + amount,
                 !.validators[v].active_balance = @ - amount,
                 !.validators[v].last_stake_delta_epoch = epoch,
                 !.stakes = IF whole
                            THEN [@ EXCEPT ![i].status = "cooling"]
                            ELSE Append([@ EXCEPT ![i].stake = @ - amount,
                                                  ![i].last_update_delegated_lamports
                                                      = @ - amount],
                                        split),
                 !.next_account = IF whole THEN @ ELSE @ + 1]
      [] ins.kind = "update_active" ->
           LET v == ins.validator_index
               i == ins.stake_index
               rewards == L.stakes[i].stake - L.stakes[i].last_update_delegated_lamports
           IN [L EXCEPT
                 !.state.total_active_balance = @ + rewards,
                 !.validators[v].active_balance = @ + rewards,
                 !.stakes[i].last_update_epoch = epoch,
                 !.stakes[i].last_update_delegated_lamports = L.stakes[i].stake]
      [] ins.kind = "update_deactivated" ->
           LET i == ins.stake_index
           IN [L EXCEPT
                 !.state.total_cooling_down = @ - L.stakes[i].last_update_delegated_lamports,
                 !.reserve = @ + L.stakes[i].last_update_delegated_lamports,
                 !.stakes = RemoveSwapLast(@, i)]
      [] ins.kind = "merge_stakes" ->
           LET d == ins.stake_index
               src == L.stakes[ins.source_index]
           IN [L EXCEPT
                 !.stakes = RemoveSwapLast(
                     [@ EXCEPT ![d].stake = @ + src.stake,
                               ![d].last_update_delegated_lamports
                                   = @ + src.last_update_delegated_lamports],
                     ins.source_index)]
      [] ins.kind = "config_validator_system" ->
           [L EXCEPT !.state.extra_stake_delta_runs = ins.extra_runs]
      [] OTHER -> L

(***************************************************************************)
(* Submitting (cli-common/src/rpc_client_helpers.rs). What the cluster     *)
(* does with a transaction is one of:                                      *)
(*   "accepted"           it is confirmed (or, simulated, reports no error)*)
(*   "rejected_preflight" rejected with a preflight failure carrying logs  *)
(*   "rejected_other"     rejected in any other way (a failure without     *)
(*                        logs, a transaction error at confirmation, or,   *)
(*                        simulated, a result whose err is set)            *)
(***************************************************************************)
Outcomes == {"accepted", "rejected_preflight", "rejected_other"}

execute_transaction(outcome) ==
    IF outcome = "rejected_preflight" THEN "Err" ELSE "Ok"

simulate_prepared_transaction(outcome) ==
    IF outcome = "rejected_preflight" THEN "Err" ELSE "Ok"

process_transaction(simulation, outcome) ==
    IF simulation THEN simulate_prepared_transaction(outcome)
    ELSE execute_transaction(outcome)

\* The ledger after the cluster has dealt with the transaction.
LedgerAfter(L, ins, outcome, simulation, epoch) ==
    IF outcome = "accepted" /\ ~simulation THEN ApplyInstruction(L, ins, epoch) ELSE L

\* RpcMarinade::update: re-read the State account
update(L) == L.state

(***************************************************************************)
(* Bounds and constants of the bot model.                                  *)
(***************************************************************************)
MaxStakes == 3              \* stake accounts in the initial stake list
MaxLimit == 1               \* largest --limit tried (0 = no limit)
SlowSecs == 600             \* seconds a slow submission takes
LAST_SLOTS_UNSAFE_MARGIN == 32
max_run_minutes == 9        \* default of --max-run-minutes
wait_between_transactions == 5
min_merge_secs == 10        \* merge-stakes needs more than this remaining
PACKET_DATA_SIZE == 1232

SatSub(a, b) == IF a > b THEN a - b ELSE 0

(***************************************************************************)
(* The initial ledgers. Two validators (accounts 1 and 2); stake accounts  *)
(* are numbered from 11. Epoch 5 runs from slot 1000 to slot 1199.         *)
(***************************************************************************)
StakeRec(account, voter, status, stake, delegated, credits, updated) ==
    [stake_account |-> account, voter |-> voter, status |-> status, stake |-> stake,
     credits_observed |-> credits, last_update_epoch |-> updated,
     last_update_delegated_lamports |-> delegated]

\* voter, status, delegation.stake, last_update_delegated_lamports,
\* credits_observed, last_update_epoch
StakeTemplates ==
    { <<1, "active", 15, 15, 7, 4>>,
      <<1, "active", 16, 15, 7, 4>>,
      <<1, "active", 15, 15, 8, 5>>,
      <<1, "warming", 15, 15, 7, 5>>,
      <<1, "partial", 15, 15, 7, 5>>,
      <<2, "active", 25, 25, 7, 4>>,
      <<1, "cooling", 15, 15, 7, 4>>,
      <<1, "deactivated", 15, 15, 7, 4>> }

StakeLists(templates) ==
    UNION { [1..n -> templates] : n \in 0..MaxStakes }

MakeStakes(list) ==
    [i \in 1..Len(list) |->
        StakeRec(10 + i, list[i][1], list[i][2], list[i][3], list[i][4],
                 list[i][5], list[i][6])]

ActiveBalanceOf(stakes, voter) ==
    SumSeq([i \in 1..Len(stakes) |->
               IF stakes[i].voter = voter /\ NotDeactivating(stakes[i])
               THEN stakes[i].last_update_delegated_lamports ELSE 0])

CoolingDownOf(stakes) ==
    SumSeq([i \in 1..Len(stakes) |->
               IF NotDeactivating(stakes[i]) THEN 0
               ELSE stakes[i].last_update_delegated_lamports])

MakeLedger(stakes, scores, last_runs, extra_runs, excess, tickets) ==
    [state |-> [rent_exempt_for_token_acc |-> 2,
                total_cooling_down |-> CoolingDownOf(stakes),
                circulating_ticket_balance |-> tickets,
                total_active_balance |->
                    SumSeq([v \in 1..Len(scores) |-> ActiveBalanceOf(stakes, v)]),
                total_validator_score |-> SumSeq(scores),
                min_stake |-> 10,
                extra_stake_delta_runs |-> extra_runs,
                slots_for_stake_delta |-> 80],
     reserve |-> 2 + excess,
     validators |-> [v \in 1..Len(scores) |->
                       [validator_account |-> v, score |-> scores[v],
                        active_balance |-> ActiveBalanceOf(stakes, v),
                        last_stake_delta_epoch |-> last_runs[v]]],
     stakes |-> stakes,
     next_account |-> 11 + Len(stakes)]

(***************************************************************************)
(* The bot (cli/bot-cli). `bot` holds the position of the process and the  *)
(* local variables of the function it is in; bot.state is marinade.state,  *)
(* the copy of the State account that RpcMarinade::update refreshes.       *)
(***************************************************************************)
Budget == max_run_minutes * 60

\* the max_run_seconds that do-work hands to stake-delta
max_run_seconds == max_run_minutes * 60

\* the max_run_seconds of the stake-delta command of bot-cli
stake_delta_command_seconds == 10 * 60

Elapsed == now

\* Stable insertion sort of records by their key field (sort_by_key).
RECURSIVE InsertByKey(_, _)
InsertByKey(x, sorted) ==
    IF sorted = <<>> THEN <<x>>
    ELSE IF Head(sorted).key <= x.key THEN <<Head(sorted)>> \o InsertByKey(x, Tail(sorted))
    ELSE <<x>> \o sorted

RECURSIVE SortByKey(_)
SortByKey(s) ==
    IF s = <<>> THEN <<>>
    ELSE InsertByKey(s[Len(s)], SortByKey(SubSeq(s, 1, Len(s) - 1)))

Reverse(s) == [i \in 1..Len(s) |-> s[Len(s) + 1 - i]]

\* RpcMarinade::validator_list
validator_list(L) == L.validators

\* A slip: the stake list from its last record to its first.
stakes_info_backward(L) ==
    [i \in 1..Len(L.stakes) |->
        [index |-> Len(L.stakes) + 1 - i, record |-> L.stakes[Len(L.stakes) + 1 - i]]]

\* RpcMarinade::stakes_info: the stake list with each record's index
stakes_info(L) == [i \in 1..Len(L.stakes) |-> [index |-> i, record |-> L.stakes[i]]]

\* A slip: the stake list in ledger order.
stakes_info_forward(L) == stakes_info(L)

\* RpcMarinade::stakes_info_reversed
stakes_info_reversed(L) == Reverse(stakes_info(L))

BotInit(L) ==
    [pc |-> "main", result |-> "none", pass_result |-> "none", passes |-> <<>>,
     state |-> L.state,
     validators_info |-> <<>>, stakes_info |-> <<>>, validator_stakes |-> <<>>,
     i |-> 0, j |-> 0,
     count_tx_ok |-> 0, count_tx_err |-> 0, count_processed |-> 0,
     total_to_unstake |-> 0, sum_maybe_deactivated_total |-> 0,
     sum_maybe_deactivated_this_validator |-> 0,
     to_unstake_from_validator |-> 0, left_to_unstake_from_validator |-> 0,
     mergeable_stakes |-> <<>>, merge_start |-> 0, max_seconds |-> 0,
     read_at |-> 0, accepted0 |-> 0, rejected0 |-> 0, visited |-> {}, pass_errors |-> 0,
     throttled |-> {}, max_run_seconds |-> max_run_seconds, total_stake_delta |-> 0,
     rpc |-> "ready", deposited |-> {}]

NoSub ==
    [pass |-> "none", ins |-> NoInstr, outcome |-> "none", reported |-> "none",
     at |-> 0, stale |-> FALSE, names_match |-> TRUE, revisit |-> FALSE, amount |-> 0,
     source |-> <<>>, destination |-> <<>>]

TallyInit ==
    [submitted |-> 0, accepted |-> 0, rejected |-> 0, applied |-> 0,
     reported_ok |-> 0, reported_err |-> 0, assigned |-> 0, delta0 |-> 0,
     deposited |-> 0]

\* The builder calls of one loop iteration: the signers are registered, then
\* begin, one add_instruction per instruction, commit and build_one.
RECURSIVE AddAll(_, _, _)
AddAll(r, serial, accounts) ==
    IF accounts = <<>> \/ r.status # "ok" THEN r
    ELSE Only({ AddAll(added, serial + 1, Tail(accounts)) :
                  added \in {add_instruction(r.b,
                                             [serial |-> serial + 1, size |-> 1,
                                              account |-> Head(accounts), is_signer |-> TRUE],
                                             serial + 1)} })

BuildUnit(b, serial, accounts) ==
    LET signed == [b EXCEPT !.signature_builder = @ \cup Range(accounts)]
    IN Only({ IF closed.status = "ok" THEN build_one(closed.b) ELSE closed :
                closed \in { IF added.status = "ok" THEN commit(added.b) ELSE added :
                               added \in { AddAll(opened, serial, accounts) :
                                             opened \in {begin(signed)} } } })

\* One submission: the transaction is built, the cluster deals with it in
\* `outcome`, which takes `d` seconds, and the bot then sleeps `pause` seconds.
SubmitUnit(unit, call, pass, ins, amount, source, destination, accounts, outcome, d, pause) ==
    /\ outcome = "accepted" => LedgerAccepts(ledger, ins, clock.epoch)
    /\ d = 0 \/ Elapsed <= Budget
    /\ unit.status = "ok"
    /\ builder' = unit.b
    /\ nadded' = nadded + Len(accounts)
    /\ last' = [call |-> call, arg |-> NoArg, before |-> builder,
                status |-> unit.status, tx |-> unit.tx]
    /\ ledger' = LedgerAfter(ledger, ins, outcome, opts.simulate, clock.epoch)
    /\ now' = now + d + pause
    /\ sub' = [pass |-> pass, ins |-> ins, outcome |-> outcome,
               reported |-> process_transaction(opts.simulate, outcome),
               at |-> Elapsed,
               stale |-> bot.read_at < tally.submitted,
               names_match |-> NamesMatch(ledger, ins),
               revisit |-> {ins.stake_account, ins.source_account} \cap bot.visited # {},
               amount |-> amount, source |-> source, destination |-> destination]
    /\ tally' = [tally EXCEPT
                   !.submitted = @ + 1,
                   !.accepted = @ + (IF outcome = "accepted" THEN 1 ELSE 0),
                   !.rejected = @ + (IF outcome = "accepted" THEN 0 ELSE 1),
                   !.applied = @ + (IF ledger' # ledger THEN 1 ELSE 0),
                   !.reported_ok = @ + (IF sub'.reported = "Ok" THEN 1 ELSE 0),
                   !.reported_err = @ + (IF sub'.reported = "Err" THEN 1 ELSE 0),
                   !.assigned = @ + (IF sub'.reported = "Ok" THEN amount ELSE 0),
                   !.deposited = @ + (IF ins.kind = "stake_reserve"
                                      THEN ledger.reserve - ledger'.reserve ELSE 0)]

\* A submission of one pack built with begin, commit and build_one.
Submit(pass, ins, amount, source, destination, accounts, outcome, d, pause) ==
    \E unit \in {BuildUnit(builder, nadded, accounts)} :
        SubmitUnit(unit, "build_one",
                   pass, ins, amount, source, destination, accounts, outcome, d, pause)

\* The builder calls of "ask for extra-runs": the instruction is added outside
\* begin/commit and the transaction is taken from combined_sequence().
BuildCombined(b, serial, accounts) ==
    LET signed == [b EXCEPT !.signature_builder = @ \cup Range(accounts)]
        added == AddAll(Ret(signed, "ok", NoneTx), serial, accounts)
    IN IF added.status = "ok" THEN build_next_combined(added.b) ELSE added

Durations == {0, SlowSecs}

(***************************************************************************)
(* do-work (do_work.rs).                                                   *)
(***************************************************************************)
NoBuild == UNCHANGED <<builder, last, nadded>>

NoSubmit == NoBuild /\ UNCHANGED <<ledger, now, sub, tally>>

stake_window_start_slot(clk, state) ==
    SatSub(clk.epoch_last_slot, state.slots_for_stake_delta)

\* the test "good window for stake-delta"
InStakeDeltaWindow(clk, state) ==
    /\ clk.slot > stake_window_start_slot(clk, state)
    /\ clk.slot < clk.epoch_last_slot - LAST_SLOTS_UNSAFE_MARGIN

\* A slip: the unsafe margin at the end of the epoch is not kept clear.
InStakeDeltaWindowNoMargin(clk, state) ==
    /\ clk.slot > stake_window_start_slot(clk, state)
    /\ clk.slot <= clk.epoch_last_slot

InWindow(clk, state) == InStakeDeltaWindow(clk, state)

\* A slip: the imbalance is not looked at.
ActionableAlways(delta, state) == TRUE

Actionable(delta, state) ==
    ~(delta = 0 \/ (delta > 0 /\ delta < state.min_stake))

validators_with_score_count(validators) ==
    Cardinality({i \in 1..Len(validators) : validators[i].score > 0})

AskForExtraRuns(clk, state, validators) ==
    /\ state.extra_stake_delta_runs < validators_with_score_count(validators)
    /\ clk.slot > stake_window_start_slot(clk, state) + state.slots_for_stake_delta \div 2

\* A slip: update-price and merge-stakes run at every slot before the unsafe
\* margin, inside the stake-delta window too.
before_the_unsafe_margin(clk, state) ==
    clk.slot < clk.epoch_last_slot - LAST_SLOTS_UNSAFE_MARGIN

before_the_stake_delta_window(clk, state) ==
    clk.slot < stake_window_start_slot(clk, state)

FirstHalfOfEpoch(clk) == clk.slot < (clk.epoch_last_slot + clk.epoch_first_slot) \div 2

StartedFrom(b, pass) == [b EXCEPT !.pc = pass, !.passes = Append(@, pass)]

Started(pass) == StartedFrom(bot, pass)

TickEnds(b, result) == [b EXCEPT !.pc = "done", !.result = result]

\* What do-work does once the stake-delta part is over or was not entered:
\* before the window it goes on with update-price (first half of the epoch)
\* or merge-stakes, otherwise "end of do-work. We're in the stake-delta window."
AfterStakeDeltaPart(b) ==
    IF before_the_stake_delta_window(clock, b.state)
    THEN IF FirstHalfOfEpoch(clock) THEN StartedFrom(b, "up_start")
         ELSE [b EXCEPT !.pc = "merge_check"]
    ELSE TickEnds(b, "Ok")

\* DoWorkOptions::process up to the first thing it starts
DoWorkStart ==
    /\ bot.pc = "main"
    /\ LET delta == stake_delta(bot.state, ledger.reserve)
       IN bot' =
            IF InWindow(clock, bot.state)
            THEN IF ~Actionable(delta, bot.state) THEN AfterStakeDeltaPart(bot)
                 ELSE IF AskForExtraRuns(clock, bot.state, validator_list(ledger))
                 THEN [bot EXCEPT !.pc = "ask_extra_runs"]
                 ELSE Started("sd_start")
            ELSE AfterStakeDeltaPart(bot)
    /\ NoSubmit
    /\ UNCHANGED <<clock, opts>>

\* "ask for extra-runs": config_validator_system and the submission of
\* builder.combined_sequence(), whose result is only logged
AskExtraRuns ==
    /\ bot.pc = "ask_extra_runs"
    /\ \E is_manager \in BOOLEAN :
         IF ~is_manager
         THEN bot' = TickEnds(bot, "Err") /\ NoSubmit
         ELSE /\ \E outcome \in Outcomes, d \in Durations :
                    SubmitUnit(BuildCombined(builder, nadded, <<FeePayer>>),
                               "build_next_combined", "do_work",
                               config_validator_system(
                                   validators_with_score_count(validator_list(ledger))),
                               0, <<>>, <<>>, <<FeePayer>>, outcome, d, 0)
              /\ bot' = [bot EXCEPT !.pc = "sd_start", !.passes = Append(@, "sd_start")]
    /\ UNCHANGED <<clock, opts>>

\* after stake-delta: the result is logged, then marinade.update()
DoWorkAfterStakeDelta ==
    /\ bot.pc = "sd_ret"
    /\ bot' = AfterStakeDeltaPart([bot EXCEPT !.state = update(ledger)])
    /\ NoSubmit
    /\ UNCHANGED <<clock, opts>>

\* after update-price: the result is logged, then marinade.update()
DoWorkAfterUpdatePrice ==
    /\ bot.pc = "up_ret"
    /\ bot' = [bot EXCEPT !.state = update(ledger), !.pc = "merge_check"]
    /\ NoSubmit
    /\ UNCHANGED <<clock, opts>>

remaining_secs == SatSub(max_run_minutes * 60, Elapsed)

\* "starting merge-stakes": only with more than 10 seconds remaining
DoWorkMergeCheck ==
    /\ bot.pc = "merge_check"
    /\ bot' = IF remaining_secs > min_merge_secs
              THEN [bot EXCEPT !.pc = "ms_start", !.passes = Append(@, "ms_start"),
                               !.max_seconds = remaining_secs]
              ELSE TickEnds(bot, "Ok")
    /\ NoSubmit
    /\ UNCHANGED <<clock, opts>>

\* after merge-stakes: the result is logged
DoWorkAfterMerge ==
    /\ bot.pc = "ms_ret"
    /\ bot' = TickEnds(bot, "Ok")
    /\ NoSubmit
    /\ UNCHANGED <<clock, opts>>

(***************************************************************************)
(* stake-delta (stake_delta.rs).                                           *)
(***************************************************************************)
Abs(x) == IF x < 0 THEN -x ELSE x

NewKey == 100 + nadded

\* the ValidatorInfo vector
ValidatorsInfo(state, validators, total_stake_target) ==
    [i \in 1..Len(validators) |->
        [index |-> i, record |-> validators[i],
         stake_delta |-> validator_stake_target(state, validators[i], total_stake_target)
                         - validators[i].active_balance]]

Unkeyed(keyed) == [i \in 1..Len(keyed) |-> keyed[i].val]

\* A slip: the lowest score first.
ByScoreAscending(infos) ==
    Unkeyed(SortByKey([i \in 1..Len(infos) |->
                          [key |-> infos[i].record.score, val |-> infos[i]]]))

ByScoreDescending(infos) ==
    Unkeyed(SortByKey([i \in 1..Len(infos) |->
                          [key |-> -infos[i].record.score, val |-> infos[i]]]))

ByStakeDelta(infos) ==
    Unkeyed(SortByKey([i \in 1..Len(infos) |->
                          [key |-> infos[i].stake_delta, val |-> infos[i]]]))

\* A slip: the stakes are taken in the order they were read in.
AsRead(infos) == infos

ByDelegatedStake(infos) ==
    Unkeyed(SortByKey([i \in 1..Len(infos) |->
                          [key |-> infos[i].record.stake, val |-> infos[i]]]))

PassEnds(b, pc) ==
    [b EXCEPT !.pc = pc,
              !.pass_result = IF b.count_tx_err = 0 THEN "Ok(true)" ELSE "Ok(false)"]

\* A slip: a pass with nothing to do reports that a transaction failed.
PassReturnsOkFalse(b, pc) == [b EXCEPT !.pc = pc, !.pass_result = "Ok(false)"]

\* `return Ok(true)` before any loop: the pass has nothing to do
PassHasNothingToDo(b, pc) == [b EXCEPT !.pc = pc, !.pass_result = "Ok(true)"]

PassFails(b, pc) ==
    [b EXCEPT !.pc = pc, !.pass_result = "Err", !.pass_errors = @ + 1]

LimitReached(b) == opts.limit > 0 /\ b.count_processed >= opts.limit

\* A slip: `as u64`, which never fails.
cast_as_u64(x) == FALSE

\* whether `.try_into()?` of an i128 into a u64 returns the error
try_into_u64_fails(x) == x < 0 \/ x > U64_MAX

\* StakeDeltaOptions::process up to the loop over the validators
StakeDeltaStart ==
    /\ bot.pc = "sd_start"
    /\ LET delta == stake_delta(bot.state, ledger.reserve)
           total_stake_target == bot.state.total_active_balance + delta
           infos == ValidatorsInfo(bot.state, validator_list(ledger), total_stake_target)
           fresh == [bot EXCEPT !.count_tx_ok = 0, !.count_tx_err = 0,
                                !.count_processed = 0, !.read_at = tally.submitted,
                                !.accepted0 = tally.accepted, !.rejected0 = tally.rejected,
                                !.total_stake_delta = delta, !.deposited = {}]
       IN /\ bot' =
               IF delta = 0 \/ (delta >= 0 /\ delta < bot.state.min_stake)
               THEN PassHasNothingToDo(fresh, "sd_ret")
               ELSE IF try_into_u64_fails(total_stake_target)
               THEN PassFails(fresh, "sd_ret")
               ELSE IF delta > 0
               THEN [fresh EXCEPT !.pc = "sd_surplus", !.i = 1,
                                  !.validators_info = ByScoreDescending(infos)]
               ELSE [fresh EXCEPT !.pc = "sd_short_v", !.i = 1,
                                  !.validators_info = ByStakeDelta(infos),
                                  !.stakes_info = stakes_info_reversed(ledger),
                                  !.total_to_unstake = -delta,
                                  !.sum_maybe_deactivated_total = 0]
          /\ tally' = [tally EXCEPT !.delta0 = Abs(delta), !.assigned = 0]
    /\ NoBuild
    /\ UNCHANGED <<ledger, now, sub, clock, opts>>

\* A slip: the need of a validator is not compared with min_stake.
SurplusEligibleAnyNeed(info, state, epoch) ==
    /\ info.stake_delta >= 0
    /\ ~(info.record.last_stake_delta_epoch = epoch /\ state.extra_stake_delta_runs = 0)

\* the three tests at the head of the surplus loop
SurplusEligible(info, state, epoch) ==
    /\ info.stake_delta >= 0
    /\ info.stake_delta >= state.min_stake
    /\ ~(info.record.last_stake_delta_epoch = epoch /\ state.extra_stake_delta_runs = 0)

\* the third test alone: "already run this epoch" with no extra run allowed
SurplusThrottled(info, state, epoch) ==
    /\ info.stake_delta >= 0
    /\ info.stake_delta >= state.min_stake
    /\ info.record.last_stake_delta_epoch = epoch
    /\ state.extra_stake_delta_runs = 0

\* what the pass knows of a validator when it applies the epoch rule to it
RuleView(info, state) ==
    [validator_index |-> info.index,
     last_stake_delta_epoch |-> info.record.last_stake_delta_epoch,
     extra_stake_delta_runs |-> state.extra_stake_delta_runs]

\* what the surplus loop knows when it builds a stake_reserve for the
\* validator at place `k` of its order
SurplusView(info, state, total_stake_delta, k) ==
    [validator_index |-> info.index,
     last_stake_delta_epoch |-> info.record.last_stake_delta_epoch,
     extra_stake_delta_runs |-> state.extra_stake_delta_runs,
     score |-> info.record.score,
     stake_delta |-> info.stake_delta,
     total_stake_delta |-> total_stake_delta,
     min_stake |-> state.min_stake,
     place |-> k]

\* the validators from `from` up to `upto` that the surplus loop passes over
\* because of the epoch rule
ThrottledBetween(infos, from, upto, state, epoch) ==
    { RuleView(infos[n], state) :
        n \in {m \in from..upto : SurplusThrottled(infos[m], state, epoch)} }

\* A slip: the loop looks for a validator from the top of the list again.
RECURSIVE NextSurplusFromTop(_, _, _, _)
NextSurplusFromTop(infos, from, state, epoch) ==
    IF from > Len(infos) THEN 0
    ELSE IF \E m \in 1..Len(infos) : SurplusEligible(infos[m], state, epoch)
    THEN CHOOSE m \in 1..Len(infos) :
            /\ SurplusEligible(infos[m], state, epoch)
            /\ \A n \in 1..(m - 1) : ~SurplusEligible(infos[n], state, epoch)
    ELSE 0

RECURSIVE NextSurplus(_, _, _, _)
NextSurplus(infos, from, state, epoch) ==
    IF from > Len(infos) THEN 0
    ELSE IF SurplusEligible(infos[from], state, epoch) THEN from
    ELSE NextSurplus(infos, from + 1, state, epoch)

\* the surplus loop ends without a submission
SurplusEnds ==
    /\ bot.pc = "sd_surplus"
    /\ LET k == NextSurplus(bot.validators_info, bot.i, bot.state, clock.epoch)
           delta == stake_delta(bot.state, ledger.reserve)
           upto == IF k = 0 THEN Len(bot.validators_info) ELSE k - 1
       IN /\ k = 0 \/ delta <= 0 \/ delta < bot.state.min_stake
          /\ bot' = PassEnds([bot EXCEPT !.throttled = @ \cup
                                 ThrottledBetween(bot.validators_info, bot.i, upto,
                                                  bot.state, clock.epoch)],
                             "sd_ret")
    /\ NoSubmit
    /\ UNCHANGED <<clock, opts>>

\* one iteration of the surplus loop that stakes into a validator
SurplusStake ==
    /\ bot.pc = "sd_surplus"
    /\ LET k == NextSurplus(bot.validators_info, bot.i, bot.state, clock.epoch)
           delta == stake_delta(bot.state, ledger.reserve)
       IN /\ k # 0
          /\ ~(delta <= 0 \/ delta < bot.state.min_stake)
          /\ LET info == bot.validators_info[k]
                 to_stake == Min(info.stake_delta, delta)
             IN /\ \E outcome \in Outcomes, d \in Durations :
                      Submit("stake_delta", stake_reserve(info.index), to_stake,
                             SurplusView(info, bot.state, delta, k), <<>>,
                             <<NewKey, FeePayer>>, outcome, d,
                             wait_between_transactions)
                /\ LET ok == sub'.reported = "Ok"
                       b == [bot EXCEPT
                               !.count_tx_ok = @ + (IF ok THEN 1 ELSE 0),
                               !.count_tx_err = @ + (IF ok THEN 0 ELSE 1),
                               !.state = update(ledger'),
                               !.count_processed = @ + 1,
                               !.deposited = @ \cup {info.index},
                               !.throttled = @ \cup
                                   ThrottledBetween(bot.validators_info, bot.i, k - 1,
                                                    bot.state, clock.epoch),
                               !.i = k + 1]
                   IN bot' = IF LimitReached(b) \/ now' > bot.max_run_seconds
                             THEN PassEnds(b, "sd_ret") ELSE b
    /\ UNCHANGED <<clock, opts>>

\* why the shortfall loop over the validators stops at its head, if it does
ShortfallHeadBreaks(b, info) ==
    \/ b.sum_maybe_deactivated_total >= b.total_to_unstake
    \/ info.stake_delta >= 0
    \/ stake_delta(b.state, ledger.reserve) >= 0

\* the stakes of the validator that can be deactivated, smallest first
ValidatorStakes(stakes, record) ==
    ByDelegatedStake(SelectSeq(stakes,
        LAMBDA stake_info : /\ stake_info.record.voter = record.validator_account
                            /\ NotDeactivating(stake_info.record)))

\* the head of one iteration of the shortfall loop over the validators
ShortfallValidator ==
    /\ bot.pc = "sd_short_v"
    /\ bot' =
         IF bot.i > Len(bot.validators_info) THEN PassEnds(bot, "sd_ret")
         ELSE LET info == bot.validators_info[bot.i]
                  total_to_unstake == -stake_delta(bot.state, ledger.reserve)
                  to_unstake_from_validator == Min(-info.stake_delta, total_to_unstake)
              IN IF ShortfallHeadBreaks(bot, info) THEN PassEnds(bot, "sd_ret")
                 ELSE IF info.record.last_stake_delta_epoch = clock.epoch
                 THEN [bot EXCEPT !.i = @ + 1,
                                  !.throttled = @ \cup {RuleView(info, bot.state)}]
                 ELSE [bot EXCEPT
                         !.pc = "sd_short_s", !.j = 1,
                         !.validator_stakes = ValidatorStakes(bot.stakes_info, info.record),
                         !.to_unstake_from_validator = to_unstake_from_validator,
                         !.left_to_unstake_from_validator = to_unstake_from_validator,
                         !.sum_maybe_deactivated_this_validator = 0]
    /\ NoSubmit
    /\ UNCHANGED <<clock, opts>>

\* what the shortfall loop knows when it builds a deactivate_stake
ShortfallView(info, state, stake_info, left) ==
    [validator_index |-> info.index,
     last_stake_delta_epoch |-> info.record.last_stake_delta_epoch,
     extra_stake_delta_runs |-> state.extra_stake_delta_runs,
     voter |-> stake_info.record.voter,
     status |-> stake_info.record.status,
     stake |-> stake_info.record.stake,
     left_to_unstake_from_validator |-> left]

\* A slip: the loop over the stakes goes on when the target is reached.
ShortfallStakesDoneAtTheEnd(b) ==
    \/ b.j > Len(b.validator_stakes)
    \/ LimitReached(b)

ShortfallStakesDone(b) ==
    \/ b.j > Len(b.validator_stakes)
    \/ b.sum_maybe_deactivated_this_validator >= b.to_unstake_from_validator
    \/ LimitReached(b)

\* one iteration of the loop over the stakes: a stake is deactivated
ShortfallStake ==
    /\ bot.pc = "sd_short_s"
    /\ ~ShortfallStakesDone(bot)
    /\ LET info == bot.validators_info[bot.i]
           stake_info == bot.validator_stakes[bot.j]
           left == bot.left_to_unstake_from_validator
           estimated_unstaked ==
               IF stake_info.record.last_update_delegated_lamports < left
               THEN stake_info.record.last_update_delegated_lamports ELSE left
       IN /\ \E outcome \in Outcomes, d \in Durations :
                Submit("stake_delta",
                       deactivate_stake(stake_info.record.stake_account, stake_info.index,
                                        info.index),
                       estimated_unstaked, ShortfallView(info, bot.state, stake_info, left),
                       <<>>, <<NewKey>>, outcome, d, wait_between_transactions)
          /\ LET ok == sub'.reported = "Ok"
             IN bot' = [bot EXCEPT
                          !.count_tx_ok = @ + (IF ok THEN 1 ELSE 0),
                          !.count_tx_err = @ + (IF ok THEN 0 ELSE 1),
                          !.sum_maybe_deactivated_this_validator =
                              @ + (IF ok THEN estimated_unstaked ELSE 0),
                          !.left_to_unstake_from_validator =
                              IF ok THEN SatSub(@, estimated_unstaked) ELSE @,
                          !.state = update(ledger'),
                          !.count_processed = @ + 1,
                          !.visited = @ \cup {stake_info.record.stake_account},
                          !.j = @ + 1]
    /\ UNCHANGED <<clock, opts>>

\* the loop over the stakes is left: the tail of the loop over the validators
ShortfallValidatorDone ==
    /\ bot.pc = "sd_short_s"
    /\ ShortfallStakesDone(bot)
    /\ LET b == [bot EXCEPT !.sum_maybe_deactivated_total =
                               @ + bot.sum_maybe_deactivated_this_validator]
       IN bot' = IF LimitReached(b) \/ Elapsed > bot.max_run_seconds
                 THEN PassEnds(b, "sd_ret")
                 ELSE [b EXCEPT !.pc = "sd_short_v", !.i = @ + 1]
    /\ NoSubmit
    /\ UNCHANGED <<clock, opts>>

(***************************************************************************)
(* update-price (update_price.rs).                                         *)
(***************************************************************************)
some_needs_update(stakes, epoch) ==
    \E i \in 1..Len(stakes) : stakes[i].record.last_update_epoch < epoch

\* validator_indices: the index of the validator with this vote account
ValidatorIndexOf(validators, voter) ==
    CHOOSE i \in 1..Len(validators) : validators[i].validator_account = voter

\* UpdatePriceOptions::process up to the loop over the stakes
UpdatePriceStart ==
    /\ bot.pc = "up_start"
    /\ LET stakes == stakes_info_reversed(ledger)
           fresh == [bot EXCEPT !.count_tx_ok = 0, !.count_tx_err = 0,
                                !.count_processed = 0, !.read_at = tally.submitted,
                                !.accepted0 = tally.accepted, !.rejected0 = tally.rejected,
                                !.visited = {}, !.stakes_info = stakes]
       IN bot' = IF ~some_needs_update(stakes, clock.epoch)
                 THEN PassHasNothingToDo(fresh, "up_ret")
                 ELSE [fresh EXCEPT !.pc = "up_loop", !.j = 1,
                                    !.validators_info = validator_list(ledger)]
    /\ NoSubmit
    /\ UNCHANGED <<clock, opts>>

\* A slip: every deactivating stake is updated as a deactivated one.
UpdateKindAnyDeactivating(stake_info, epoch) ==
    IF stake_info.record.last_update_epoch = epoch THEN "skip"
    ELSE IF NotDeactivating(stake_info.record)
    THEN IF stake_info.record.stake = stake_info.record.last_update_delegated_lamports
         THEN "skip" ELSE "update_active"
    ELSE "update_deactivated"

\* what the loop does with one stake: "skip" (continue), "update_active",
\* "update_deactivated" or "cooling" (only a warning)
UpdateKind(stake_info, epoch) ==
    IF stake_info.record.last_update_epoch = epoch THEN "skip"
    ELSE IF NotDeactivating(stake_info.record)
    THEN IF stake_info.record.stake = stake_info.record.last_update_delegated_lamports
         THEN "skip" ELSE "update_active"
    ELSE IF stake_activating_and_deactivating(stake_info.record).effective = 0
    THEN "update_deactivated"
    ELSE "cooling"

\* an iteration of the loop that submits nothing
UpdatePriceSkip ==
    /\ bot.pc = "up_loop"
    /\ bot.j <= Len(bot.stakes_info)
    /\ LET kind == UpdateKind(bot.stakes_info[bot.j], clock.epoch)
       IN /\ kind \in {"skip", "cooling"}
          /\ bot' = [bot EXCEPT !.j = @ + 1,
                                !.count_processed = @ + (IF kind = "cooling" THEN 1 ELSE 0)]
    /\ NoSubmit
    /\ UNCHANGED <<clock, opts>>

\* an iteration of the loop that submits update_active or update_deactivated
UpdatePriceVisit ==
    /\ bot.pc = "up_loop"
    /\ bot.j <= Len(bot.stakes_info)
    /\ LET stake_info == bot.stakes_info[bot.j]
           kind == UpdateKind(stake_info, clock.epoch)
           ins == IF kind = "update_active"
                  THEN update_active(stake_info.record.stake_account, stake_info.index,
                                     ValidatorIndexOf(bot.validators_info,
                                                      stake_info.record.voter))
                  ELSE update_deactivated(stake_info.record.stake_account,
                                          stake_info.index)
       IN /\ kind \in {"update_active", "update_deactivated"}
          /\ \E outcome \in Outcomes, d \in Durations :
                Submit("update_price", ins, 0, stake_info, stake_info, <<FeePayer>>,
                       outcome, d, 0)
          /\ LET ok == sub'.reported = "Ok"
             IN bot' = [bot EXCEPT
                          !.count_tx_ok = @ + (IF ok THEN 1 ELSE 0),
                          !.count_tx_err = @ + (IF ok THEN 0 ELSE 1),
                          !.count_processed = @ + 1,
                          !.visited = @ \cup {stake_info.record.stake_account},
                          !.j = @ + 1]
    /\ UNCHANGED <<clock, opts>>

\* the loop is over: Ok(count_tx_err == 0)
UpdatePriceEnds ==
    /\ bot.pc = "up_loop"
    /\ bot.j > Len(bot.stakes_info)
    /\ bot' = PassEnds(bot, "up_ret")
    /\ NoSubmit
    /\ UNCHANGED <<clock, opts>>

(***************************************************************************)
(* merge-stakes (merge_stakes.rs).                                         *)
(***************************************************************************)
\* the MergeableStakeInfo vector
mergeable_stakes(stakes, validators) ==
    LET infos == [i \in 1..Len(stakes) |->
                    [index |-> stakes[i].index,
                     kind |-> MergeKindOf(stakes[i].record),
                     credits_observed |-> stakes[i].record.credits_observed,
                     address |-> stakes[i].record.stake_account,
                     voter |-> stakes[i].record.voter,
                     validator_index |-> ValidatorIndexOf(validators, stakes[i].record.voter)]]
    IN SelectSeq(infos, LAMBDA info : info.kind # "none")

\* merge_stakes::process up to the loops
MergeStart ==
    /\ bot.pc = "ms_start"
    /\ LET mergeable == mergeable_stakes(stakes_info(ledger), validator_list(ledger))
       IN bot' = [bot EXCEPT !.pc = "ms_loop",
                             !.count_tx_ok = 0, !.count_tx_err = 0, !.count_processed = 0,
                             !.read_at = tally.submitted,
                                !.accepted0 = tally.accepted, !.rejected0 = tally.rejected, !.visited = {},
                             !.mergeable_stakes = mergeable,
                             !.merge_start = now,
                             !.i = Len(mergeable), !.j = 1]
    /\ NoSubmit
    /\ UNCHANGED <<clock, opts>>

\* A slip: credits_observed is not compared.
MergePairIgnoresCredits(destination, source) ==
    /\ destination.validator_index = source.validator_index
    /\ destination.kind = source.kind

\* the test that decides whether a pair is merged
MergePairMatches(destination, source) ==
    /\ destination.validator_index = source.validator_index
    /\ destination.credits_observed = source.credits_observed
    /\ destination.kind = source.kind

\* after the pair (i, j): the next destination, or the next source
MergeAdvance(b) ==
    IF b.j + 1 < b.i THEN [b EXCEPT !.j = @ + 1] ELSE [b EXCEPT !.i = @ - 1, !.j = 1]

\* an iteration of the inner loop that merges the pair, then `break`
MergePair ==
    /\ bot.pc = "ms_loop"
    /\ bot.i >= 2
    /\ LET source == bot.mergeable_stakes[bot.i]
           destination == bot.mergeable_stakes[bot.j]
       IN /\ MergePairMatches(destination, source)
          /\ \E outcome \in Outcomes, d \in Durations :
                Submit("merge_stakes",
                       merge_stakes(destination.address, destination.index,
                                    source.address, source.index,
                                    destination.validator_index),
                       0, source, destination, <<FeePayer>>, outcome, d, 0)
          /\ LET ok == sub'.reported = "Ok"
             IN bot' = [bot EXCEPT
                          !.count_tx_ok = @ + (IF ok THEN 1 ELSE 0),
                          !.count_tx_err = @ + (IF ok THEN 0 ELSE 1),
                          !.count_processed = @ + 1,
                          !.visited = @ \cup {source.address},
                          !.i = @ - 1, !.j = 1]
    /\ UNCHANGED <<clock, opts>>

\* an iteration of the inner loop that merges nothing, then the time test
MergeSkip ==
    /\ bot.pc = "ms_loop"
    /\ bot.i >= 2
    /\ ~MergePairMatches(bot.mergeable_stakes[bot.j], bot.mergeable_stakes[bot.i])
    /\ bot' = IF bot.max_seconds > 0 /\ now - bot.merge_start > bot.max_seconds
              THEN [bot EXCEPT !.pc = "ms_ret", !.pass_result = "Ok"]
              ELSE MergeAdvance(bot)
    /\ NoSubmit
    /\ UNCHANGED <<clock, opts>>

\* the loops are over: Ok(())
MergeEnds ==
    /\ bot.pc = "ms_loop"
    /\ bot.i < 2
    /\ bot' = [bot EXCEPT !.pc = "ms_ret", !.pass_result = "Ok"]
    /\ NoSubmit
    /\ UNCHANGED <<clock, opts>>

(***************************************************************************)
(* A read of the cluster fails (an RPC error or an account that does not   *)
(* decode): the `?` at the read returns the error from the function the    *)
(* bot is in.                                                              *)
(***************************************************************************)
TickReadPoints == {"main", "sd_ret", "up_ret"}

PassReadPoints ==
    {"sd_start", "sd_surplus", "sd_short_v", "sd_short_s", "up_start", "ms_start"}

ReturnPoint(pc) ==
    IF pc = "up_start" THEN "up_ret" ELSE IF pc = "ms_start" THEN "ms_ret" ELSE "sd_ret"

ReadFailure ==
    /\ bot.pc \in TickReadPoints \cup PassReadPoints
    /\ bot' = IF bot.pc \in TickReadPoints THEN TickEnds(bot, "Err")
              ELSE PassFails(bot, ReturnPoint(bot.pc))
    /\ NoSubmit
    /\ UNCHANGED <<clock, opts>>

(***************************************************************************)
(* One tick of do-work, from each of the initial ledgers and slots.        *)
(***************************************************************************)
ClockAt(slot) ==
    [epoch |-> 5, slot |-> slot, epoch_first_slot |-> 1000, epoch_last_slot |-> 1199]

IdleClock == ClockAt(1199)

IdleLedger == MakeLedger(<<>>, <<100, 100>>, <<4, 4>>, 0, 0, 0)

\* slots around the edges of the stake-delta window (1119 < slot < 1167)
\* and its midpoint (1159)
StakeDeltaSlots == {1119, 1120, 1160, 1166, 1167, 1199}

\* slots before the window: the first half of the epoch ends at 1099
AccrualSlots == {1098, 1099, 1118}

SurplusStakes ==
    MakeStakes(<< <<1, "active", 40, 40, 7, 4>>, <<2, "active", 25, 25, 7, 4>> >>)

ShortfallStakes ==
    MakeStakes(<< <<1, "active", 25, 25, 7, 4>>, <<2, "active", 40, 40, 7, 4>>,
                  <<1, "active", 25, 25, 7, 4>> >>)

StakeDeltaLedgers ==
    { MakeLedger(SurplusStakes, scores, last_runs, extra_runs, excess, 0) :
        scores \in {<<300, 100, 100>>, <<100, 100, 100>>},
        last_runs \in {<<4, 4, 4>>, <<5, 4, 4>>},
        extra_runs \in {0, 1},
        excess \in {0, 5, 100} }
    \cup
    { MakeLedger(ShortfallStakes, <<100, 100, 100>>, last_runs, extra_runs, 0, 30) :
        last_runs \in {<<4, 4, 4>>, <<5, 4, 4>>}, extra_runs \in {0, 1} }

\* A surplus of 100 with validator 1 above its target: the needs are 95
\* (validator 2) and 45 (validator 3), more than the surplus.
ScarceSurplusLedger ==
    MakeLedger(SurplusStakes, <<0, 800, 300>>, <<4, 4, 4>>, 0, 100, 0)

\* Total active 900 (700 and 200), a surplus of 100, scores 300 and 100: the
\* targets are 750 and 250, the needs 50 and 50.
TwoNeedsLedger ==
    MakeLedger(MakeStakes(<< <<1, "active", 700, 700, 7, 4>>,
                             <<2, "active", 200, 200, 7, 4>> >>),
               <<300, 100>>, <<4, 4>>, 0, 100, 0)

\* One validator with stakes of 15 and 40, and one of 5 that is cooling down;
\* a shortfall of 30.
TwoStakesLedger ==
    MakeLedger(MakeStakes(<< <<1, "active", 15, 15, 7, 4>>,
                             <<1, "active", 40, 40, 7, 4>>,
                             <<1, "cooling", 5, 5, 7, 4>> >>),
               <<100>>, <<4>>, 0, 0, 35)

ExampleLedgers == {ScarceSurplusLedger, TwoNeedsLedger, TwoStakesLedger}

\* Validator 1 with a stake of 50 and validator 2 with stakes of 15, 40 and
\* 15; a shortfall of 40. The targets are 40 and 40, the needs -10 and -30.
TwoShortfallsLedger ==
    MakeLedger(MakeStakes(<< <<1, "active", 50, 50, 7, 4>>,
                             <<2, "active", 15, 15, 7, 4>>,
                             <<2, "active", 40, 40, 7, 4>>,
                             <<2, "active", 15, 15, 7, 4>> >>),
               <<100, 100>>, <<4, 4>>, 0, 0, 40)

\* Stakes of 40 and 25 and commitments of 100: the shortfall exceeds the
\* total active balance.
InsolventLedger ==
    MakeLedger(SurplusStakes, <<100, 100, 100>>, <<4, 4, 4>>, 0, 0, 100)

AccrualLedgers ==
    { MakeLedger(MakeStakes(list), <<100, 100>>, <<4, 4>>, 0, 0, 0) :
        list \in StakeLists(StakeTemplates) }

\* every slot with the ledgers that have something to stake or unstake; the
\* stake lists of every shape at a slot of each half of the time before the
\* window
Scenarios ==
    ((StakeDeltaSlots \cup AccrualSlots) \X StakeDeltaLedgers)
    \cup ({1098, 1118} \X AccrualLedgers)
    \cup ({1120} \X ExampleLedgers)

InitFrom(scenarios) ==
    /\ \E scenario \in scenarios :
          /\ clock = ClockAt(scenario[1])
          /\ ledger = scenario[2]
    /\ opts \in [limit : {0, MaxLimit}, simulate : BOOLEAN]
    /\ bot = BotInit(ledger)
    /\ now = 0
    /\ sub = NoSub
    /\ tally = TallyInit
    /\ builder = NewBuilder(PACKET_DATA_SIZE)
    /\ last = [call |-> "new", arg |-> NoArg, before |-> builder, status |-> "ok", tx |-> NoneTx]
    /\ nadded = 0

Init == InitFrom(Scenarios)

Next ==
    \/ DoWorkStart
    \/ AskExtraRuns
    \/ StakeDeltaStart
    \/ SurplusEnds
    \/ SurplusStake
    \/ ShortfallValidator
    \/ ShortfallStake
    \/ ShortfallValidatorDone
    \/ DoWorkAfterStakeDelta
    \/ UpdatePriceStart
    \/ UpdatePriceSkip
    \/ UpdatePriceVisit
    \/ UpdatePriceEnds
    \/ DoWorkAfterUpdatePrice
    \/ DoWorkMergeCheck
    \/ MergeStart
    \/ MergePair
    \/ MergeSkip
    \/ MergeEnds
    \/ DoWorkAfterMerge
    \/ ReadFailure

Spec == Init /\ [][Next]_vars

(***************************************************************************)
(* The commands stake-delta and update-price of bot-cli, run on their own  *)
(* (main.rs): the pass is started whatever the slot is, and its result is  *)
(* the result of the process.                                              *)
(***************************************************************************)
CommandScenarios ==
    ({"sd_start"} \X {1120}
        \X (StakeDeltaLedgers \cup ExampleLedgers
            \cup {TwoShortfallsLedger, InsolventLedger}))
    \cup ({"up_start"} \X {1098} \X AccrualLedgers)

InitCommand ==
    /\ \E scenario \in CommandScenarios :
          /\ clock = ClockAt(scenario[2])
          /\ ledger = scenario[3]
          /\ bot = StartedFrom([BotInit(ledger) EXCEPT
                                  !.max_run_seconds = stake_delta_command_seconds],
                               scenario[1])
    /\ opts \in [limit : {0, MaxLimit}, simulate : BOOLEAN]
    /\ now = 0
    /\ sub = NoSub
    /\ tally = TallyInit
    /\ builder = NewBuilder(PACKET_DATA_SIZE)
    /\ last = [call |-> "new", arg |-> NoArg, before |-> builder, status |-> "ok", tx |-> NoneTx]
    /\ nadded = 0

\* a read of the pass fails: `?` makes the pass return the error
CommandReadFailure ==
    /\ bot.pc \in PassReadPoints
    /\ ReadFailure

\* main: `x.process(...)?; Ok(())`
CommandEnds ==
    /\ bot.pc \in {"sd_ret", "up_ret"}
    /\ bot' = TickEnds(bot, IF bot.pass_result = "Err" THEN "Err" ELSE "Ok")
    /\ NoSubmit
    /\ UNCHANGED <<clock, opts>>

NextCommand ==
    \/ StakeDeltaStart
    \/ SurplusEnds
    \/ SurplusStake
    \/ ShortfallValidator
    \/ ShortfallStake
    \/ ShortfallValidatorDone
    \/ UpdatePriceStart
    \/ UpdatePriceSkip
    \/ UpdatePriceVisit
    \/ UpdatePriceEnds
    \/ CommandReadFailure
    \/ CommandEnds

SpecCommand == InitCommand /\ [][NextCommand]_vars

(***************************************************************************)
(* The builder on its own: any sequence of its public calls, with the bot   *)
(* idle. `last` records the call, the builder before it and what it        *)
(* returned.                                                               *)
(***************************************************************************)
Ceilings == {0, 1, MaxCeiling - 2, MaxCeiling}

CallWith(name, arg, r) ==
    /\ last' = [call |-> name, arg |-> arg, before |-> builder,
                status |-> r.status, tx |-> r.tx]
    /\ builder' = r.b

Call(name, r) == CallWith(name, NoArg, r)

InitBuilder ==
    /\ \E c \in Ceilings : builder = NewBuilder(c)
    /\ last = [call |-> "new", arg |-> NoArg, before |-> builder, status |-> "ok", tx |-> NoneTx]
    /\ nadded = 0
    /\ ledger = IdleLedger
    /\ clock = IdleClock
    /\ opts = [limit |-> 0, simulate |-> FALSE]
    /\ bot = TickEnds(BotInit(IdleLedger), "none")
    /\ now = 0
    /\ sub = NoSub
    /\ tally = TallyInit

AddSigner ==
    /\ \E k \in SignerKeys \ builder.signature_builder :
          Call("add_signer", Ret(add_signer(builder, k), "ok", NoneTx))
    /\ UNCHANGED <<nadded, ledger, clock, opts, bot, now, sub, tally>>

NewSigner ==
    /\ GeneratedKey \notin builder.signature_builder
    /\ Call("new_signer", Ret(new_signer(builder), "ok", NoneTx))
    /\ UNCHANGED <<nadded, ledger, clock, opts, bot, now, sub, tally>>

Begin == Call("begin", begin(builder)) /\ UNCHANGED <<nadded, ledger, clock, opts, bot, now, sub, tally>>

Commit ==
    /\ Len(builder.instruction_packs) < MaxPacks
    /\ Call("commit", commit(builder))
    /\ UNCHANGED <<nadded, ledger, clock, opts, bot, now, sub, tally>>

Rollback == Call("rollback", rollback(builder)) /\ UNCHANGED <<nadded, ledger, clock, opts, bot, now, sub, tally>>

AddInstruction ==
    /\ nadded < MaxAdds
    /\ nadded' = nadded + 1
    /\ \E t \in InstructionTemplates :
          LET instruction == [serial |-> nadded', size |-> t.size,
                              account |-> t.account, is_signer |-> t.is_signer]
          IN CallWith("add_instruction", instruction,
                      add_instruction(builder, instruction, nadded'))
    /\ UNCHANGED botvars

BuildNext == Call("build_next", build_next(builder)) /\ UNCHANGED <<nadded, ledger, clock, opts, bot, now, sub, tally>>

BuildNextCombined ==
    Call("build_next_combined", build_next_combined(builder)) /\ UNCHANGED <<nadded, ledger, clock, opts, bot, now, sub, tally>>

\* the loop of process_transaction_sequence over builder.combined_sequence(),
\* every transaction of which is processed without an error
CombinedSequence ==
    /\ \E r \in {combined_sequence(builder, <<>>)} :
          /\ last' = [call |-> "combined_sequence", arg |-> NoArg, before |-> builder,
                      status |-> r.status,
                      tx |-> [is_some |-> r.units # <<>>,
                              instructions |->
                                  Flatten([i \in 1..Len(r.units) |-> r.units[i].instructions]),
                              instruction_descriptions |->
                                  Flatten([i \in 1..Len(r.units) |->
                                              r.units[i].instruction_descriptions]),
                              units |-> Len(r.units)]]
          /\ builder' = r.b
    /\ UNCHANGED <<nadded, ledger, clock, opts, bot, now, sub, tally>>

NextBuilder ==
    \/ AddSigner
    \/ Begin
    \/ Commit
    \/ Rollback
    \/ AddInstruction
    \/ BuildNext
    \/ BuildNextCombined

SpecBuilder == InitBuilder /\ [][NextBuilder]_vars

\* The calls of the builder, new_signer among them.
NextSigners == NextBuilder \/ NewSigner

SpecSigners == InitBuilder /\ [][NextSigners]_vars

\* The calls that fill the builder, and the iteration over combined_sequence().
NextSequence ==
    \/ AddSigner
    \/ Begin
    \/ Commit
    \/ Rollback
    \/ AddInstruction
    \/ CombinedSequence

SpecSequence == InitBuilder /\ [][NextSequence]_vars

(***************************************************************************)
(* Claims about the builder.                                               *)
(***************************************************************************)
LastCombined == last.call = "build_next_combined"

\* C1: build_next_combined on a closed queue [b1..bn] with no non-empty open
\* pack returns the instructions of b1 ++ ... ++ bk for some 1 <= k <= n, in
\* that order, leaves [bk+1..bn] queued (so no pack is ever divided between two
\* units), and returns None exactly when the queue is empty.
C1_CombinedTakesWholePacks ==
    (LastCombined /\ ~NotCommitted(last.before)) =>
        LET q == last.before.instruction_packs
        IN /\ last.status = "ok"
           /\ last.tx.is_some <=> q # <<>>
           /\ q = <<>> => builder.instruction_packs = <<>>
           /\ q # <<>> =>
                \E k \in 1..Len(q) :
                    /\ last.tx.instructions = InstructionsOf(Flatten(SubSeq(q, 1, k)))
                    /\ builder.instruction_packs = SubSeq(q, k + 1, Len(q))

\* A combined unit of two packs was built and a third pack stayed queued.
C1_Witness ==
    /\ LastCombined
    /\ last.status = "ok"
    /\ Len(last.before.instruction_packs) >= 3
    /\ Len(builder.instruction_packs) = 1
    /\ builder.instruction_packs[1] # <<>>
    /\ Len(last.tx.instructions) >= 2

(***************************************************************************)
(* Claims about one tick of the bot.                                       *)
(***************************************************************************)
AllocatorLoop == {"sd_surplus", "sd_short_v", "sd_short_s"}

PassLoops == AllocatorLoop \cup {"up_loop", "ms_loop"}

Passes == {"stake_delta", "update_price", "merge_stakes"}

RejectedInPass == tally.rejected - bot.rejected0

AcceptedInPass == tally.accepted - bot.accepted0

\* C2: within one stake-delta pass the amounts assigned to validators
\* (to_stake of each deposit, estimated_unstaked of each deactivation that the
\* pass took as done) never add up to more than |delta| at the start of the pass.
C2_AssignedWithinDelta == tally.assigned <= tally.delta0

\* C3: no submission of a pass is built from a snapshot (validator records,
\* stake records, targets) read before the bot's own most recent submission.
C3_FreshSnapshotBeforeEachDecision ==
    sub.pass \in Passes => ~sub.stale

\* C4: in update-price and merge-stakes, with removal by replace-with-last, at
\* each submission the stake list holds at every index the instruction names
\* the account it names, no instruction names a stake that an earlier
\* instruction of the pass was built for and removed, and, when update-price
\* ends, no stake that needed an update was passed over.
C4_ReverseScanKeepsIndexes ==
    /\ sub.pass \in {"update_price", "merge_stakes"} =>
          sub.names_match /\ ~sub.revisit
    /\ (bot.pc = "up_ret" /\ bot.pass_result \in {"Ok(true)", "Ok(false)"}) =>
          \A k \in 1..Len(bot.stakes_info) :
              UpdateKind(bot.stakes_info[k], clock.epoch)
                  \in {"update_active", "update_deactivated"}
              => bot.stakes_info[k].record.stake_account \in bot.visited

\* An update was accepted after an earlier update of the same pass had removed
\* a stake from the list.
C4_Witness ==
    /\ sub.pass = "update_price"
    /\ sub.ins.kind = "update_active"
    /\ sub.outcome = "accepted"
    /\ ~opts.simulate
    /\ sub.names_match
    /\ bot.pc = "up_loop"
    /\ Len(ledger.stakes) < Len(bot.stakes_info)

\* C5: a merge is submitted only for two stakes of the same validator, of the
\* same mergeable kind and with equal credits_observed.
C5_MergeOnlyMatchingPairs ==
    sub.pass = "merge_stakes" =>
        /\ sub.source.voter = sub.destination.voter
        /\ sub.source.validator_index = sub.destination.validator_index
        /\ sub.source.kind = sub.destination.kind
        /\ sub.source.kind \in {"ActivationEpoch", "FullyActive"}
        /\ sub.source.credits_observed = sub.destination.credits_observed
        /\ sub.ins.source_account = sub.source.address
        /\ sub.ins.stake_account = sub.destination.address
        /\ sub.source.address # sub.destination.address

\* A merge was submitted and accepted while the list held another stake of the
\* same validator that the pair test had turned down.
C5_Witness ==
    /\ sub.pass = "merge_stakes"
    /\ sub.outcome = "accepted"
    /\ ~opts.simulate
    /\ \E k \in 1..Len(bot.mergeable_stakes) :
          /\ bot.mergeable_stakes[k].validator_index = sub.source.validator_index
          /\ bot.mergeable_stakes[k].credits_observed # sub.source.credits_observed

\* C6: a rejected submission does not abort the pass: it is counted in the
\* error counter, and stake-delta and update-price return Ok(false) exactly
\* when a submission of the pass was rejected.
C6_RejectionCountedAndReported ==
    /\ bot.pc \in PassLoops => bot.count_tx_err = RejectedInPass
    /\ (bot.pc \in {"sd_ret", "up_ret"} /\ bot.pass_result \in {"Ok(true)", "Ok(false)"}) =>
          (bot.pass_result = "Ok(false)" <=> RejectedInPass > 0)

\* C7: the counters are exact for every kind of rejection: each submission
\* the cluster accepted is reported Ok and counted in count_tx_ok, each one it
\* rejected is reported Err and counted in count_tx_err, and only accepted
\* instructions change the ledger.
C7_CountersExact ==
    /\ sub.outcome = "accepted" => sub.reported = "Ok"
    /\ sub.outcome \in {"rejected_preflight", "rejected_other"} => sub.reported = "Err"
    /\ bot.pc \in PassLoops =>
          bot.count_tx_ok = AcceptedInPass
    /\ tally.applied <= tally.accepted

\* C8: when a sub-algorithm returns an error, the tick ends with that error.
C8_PassErrorEndsTick ==
    /\ (bot.pc = "done" /\ bot.pass_errors > 0) => bot.result = "Err"
    /\ bot.pass_errors > 0 => bot.pc \in {"done", "sd_ret", "up_ret", "ms_ret"}
    /\ (bot.pass_errors > 0 /\ bot.pc # "done") => bot.pass_result = "Err"

\* C9: no submission of a pass is started once the time elapsed since the
\* start of the tick exceeds the budget.
C9_NoSubmissionAfterBudget ==
    sub.pass \in Passes => sub.at <= Budget

\* C10: stake-delta is started only at a slot with
\* epoch_last_slot - slots_for_stake_delta < slot < epoch_last_slot - 32, and
\* at any other slot the tick submits no stake_reserve and no deactivate_stake.
C10_AllocatorOnlyInWindow ==
    ( \/ bot.pc \in AllocatorLoop \cup {"sd_start", "sd_ret", "ask_extra_runs"}
      \/ \E k \in 1..Len(bot.passes) : bot.passes[k] = "sd_start"
      \/ sub.ins.kind \in {"stake_reserve", "deactivate_stake"} )
    => /\ clock.epoch_last_slot - ledger.state.slots_for_stake_delta < clock.slot
       /\ clock.slot < clock.epoch_last_slot - 32

\* A deposit was submitted at the last slot of the window.
C10_Witness ==
    /\ sub.ins.kind = "stake_reserve"
    /\ clock.slot = clock.epoch_last_slot - 32 - 1


\* The position of `pass` in the sequence of passes the tick started (0: none)
StartedAt(pass) ==
    IF \E k \in 1..Len(bot.passes) : bot.passes[k] = pass
    THEN CHOOSE k \in 1..Len(bot.passes) : bot.passes[k] = pass
    ELSE 0

\* C11: a tick whose slot is outside the settlement window, and which ended
\* without an error, has run merge-stakes unless the remaining budget was at
\* most the floor of 10 seconds, and has run update-price before it when the
\* slot is in the first half of the epoch.
C11_AccrualTickRunsCrankAndMerge ==
    (/\ bot.pc = "done"
     /\ bot.result = "Ok"
     /\ ~InStakeDeltaWindow(clock, ledger.state))
    => /\ StartedAt("ms_start") > 0 \/ SatSub(Budget, Elapsed) <= min_merge_secs
       /\ FirstHalfOfEpoch(clock)
            => /\ StartedAt("up_start") > 0
               /\ StartedAt("ms_start") > 0 => StartedAt("up_start") < StartedAt("ms_start")

\* The algorithm the tick is inside of, by the place the bot is at
RunningPass ==
    IF bot.pc \in AllocatorLoop \cup {"sd_start"} THEN "sd_start"
    ELSE IF bot.pc \in {"up_start", "up_loop"} THEN "up_start"
    ELSE IF bot.pc \in {"ms_start", "ms_loop"} THEN "ms_start"
    ELSE "none"

\* C12: the algorithms of a tick run one after the other: the one the tick is
\* inside of is the one started last, the ones started earlier have returned;
\* stake-delta is never started in a tick that starts update-price or
\* merge-stakes, and update-price and merge-stakes start at most once, in
\* that order. Every submission of an algorithm is made by a started one.
C12_OneAlgorithmAtATime ==
    /\ bot.passes \in {<<>>, <<"sd_start">>, <<"up_start">>, <<"ms_start">>,
                       <<"up_start", "ms_start">>}
    /\ RunningPass # "none" => bot.passes[Len(bot.passes)] = RunningPass
    /\ sub.pass = "stake_delta" => bot.passes = <<"sd_start">>
    /\ sub.pass = "update_price" => bot.passes[1] = "up_start"
    /\ sub.pass = "merge_stakes" => bot.passes[Len(bot.passes)] = "ms_start"

C12_Witness ==
    /\ bot.pc = "done"
    /\ bot.passes = <<"up_start", "ms_start">>
    /\ sub.pass = "merge_stakes"
    /\ tally.submitted >= 2

\* C13: in the surplus and in the shortfall path a validator is passed over
\* by the epoch rule only if it has already run in the current epoch and the
\* allowance of extra runs is zero, and a validator that has run in the
\* current epoch is processed (gets an operation) only with an allowance
\* above zero.
C13_EpochRuleNeedsZeroAllowance ==
    /\ \A view \in bot.throttled :
          /\ view.last_stake_delta_epoch = clock.epoch
          /\ view.extra_stake_delta_runs = 0
    /\ sub.pass = "stake_delta" =>
          ~(/\ sub.source.last_stake_delta_epoch = clock.epoch
            /\ sub.source.extra_stake_delta_runs = 0)

\* the imbalance as the ledger has it now
LiveDelta == stake_delta(ledger.state, ledger.reserve)

\* the surplus loop is at a validator it does not skip, with an imbalance
\* that is used up or smaller than min_stake
SurplusUsedUp ==
    /\ bot.pc = "sd_surplus"
    /\ NextSurplus(bot.validators_info, bot.i, bot.state, clock.epoch) # 0
    /\ LiveDelta <= 0 \/ LiveDelta < ledger.state.min_stake

\* what was recorded of the deposit last submitted
DepositAsStated ==
    (sub.pass = "stake_delta" /\ sub.ins.kind = "stake_reserve") =>
        /\ sub.source.stake_delta >= sub.source.min_stake
        /\ sub.amount = Min(sub.source.stake_delta, sub.source.total_stake_delta)
        /\ sub.amount >= sub.source.min_stake
        /\ sub.amount <= sub.source.total_stake_delta

\* C14: every deposit of the surplus pass goes to a validator whose need is at
\* least min_stake, its amount is min(need, delta) with delta read from the
\* ledger just before the operation is built (so min_stake <= amount <= delta),
\* and the pass ends, without another submission, at the first validator at
\* which that delta is <= 0 or below min_stake.
C14_DepositWithinNeedAndDelta ==
    /\ []DepositAsStated
    /\ [][/\ (SurplusStake => sub'.source.total_stake_delta = LiveDelta)
          /\ (SurplusUsedUp => bot'.pc = "sd_ret" /\ tally'.submitted = tally.submitted)]_vars

C14_Witness ==
    /\ bot.pc = "sd_ret"
    /\ bot.pass_result = "Ok(true)"
    /\ sub.pass = "stake_delta"
    /\ sub.ins.kind = "stake_reserve"
    /\ sub.outcome = "accepted"
    /\ sub.amount = 95
    /\ LiveDelta = 5
    /\ NextSurplus(bot.validators_info, bot.i, bot.state, clock.epoch) # 0

\* the tick started from the ledger with scores 300 and 100
FromTwoNeeds ==
    [n \in 1..Len(ledger.validators) |-> ledger.validators[n].score] = <<300, 100>>

\* the deposit last submitted follows a deposit of the same pass
DepositAfterDeposit ==
    /\ SurplusStake
    /\ sub.pass = "stake_delta"
    /\ sub.ins.kind = "stake_reserve"

\* with scores 300 and 100, active 700 and 200 and a surplus of 100: the
\* needs are 50 and 50 (targets 750 and 250) and the first operation is the
\* deposit of 50 into the validator of score 300
TwoNeedsAsStated ==
    (FromTwoNeeds /\ sub.pass = "stake_delta") =>
        /\ sub.ins.kind = "stake_reserve"
        /\ sub.source.stake_delta = 50
        /\ sub.amount = 50
        /\ tally.submitted = 1 => sub.ins.validator_index = 1
        /\ sub.ins.validator_index = 2 => tally.submitted > 1

\* C15: the surplus pass deposits in descending order of score, validators
\* of equal score in the order of the validator list; from total active 900,
\* surplus 100, scores 300 (A) and 100 (B), active 700 and 200, the first
\* operation is the deposit of 50 into A, before any deposit into B.
C15_SurplusByDescendingScore ==
    /\ []TwoNeedsAsStated
    /\ [][DepositAfterDeposit =>
            \/ sub.source.score > sub'.source.score
            \/ /\ sub.source.score = sub'.source.score
               /\ sub.source.validator_index < sub'.source.validator_index]_vars

C15_Witness ==
    /\ FromTwoNeeds
    /\ sub.pass = "stake_delta"
    /\ sub.ins.validator_index = 2
    /\ sub.amount = 50
    /\ tally.accepted = 2
    /\ ledger.validators[1].active_balance = 750
    /\ ledger.validators[2].active_balance = 250

\* the tick started from the ledger with one validator (stakes 15 and 40)
FromTwoStakes == Len(ledger.validators) = 1

\* the deactivation last submitted follows one of the same validator
DeactivationAfterDeactivation ==
    /\ ShortfallStake
    /\ sub.pass = "stake_delta"
    /\ sub.ins.kind = "deactivate_stake"
    /\ sub.ins.validator_index = sub'.ins.validator_index

\* every deactivation is of a stake of the validator that is not
\* deactivating and was not taken before in the pass
DeactivationAsStated ==
    (sub.pass = "stake_delta" /\ sub.ins.kind = "deactivate_stake") =>
        /\ sub.source.status \notin {"cooling", "deactivated"}
        /\ sub.source.voter = ledger.validators[sub.ins.validator_index].validator_account
        /\ ~sub.revisit

\* with stakes of 40 and 15 and a shortfall of 30: the stake of 15 comes
\* first, as a whole; the stake of 40 comes second, for the 15 that are left
\* once the first was taken as done
TwoStakesAsStated ==
    (FromTwoStakes /\ sub.pass = "stake_delta") =>
        /\ sub.ins.kind = "deactivate_stake"
        /\ tally.submitted = 1 => sub.source.stake = 15 /\ sub.amount = 15
        /\ sub.source.stake = 40 =>
              /\ tally.submitted = 2
              /\ bot.count_tx_ok = 2 => sub.amount = 15

\* C16: the shortfall pass deactivates the stakes of a validator that are not
\* deactivating in ascending order of their size, one operation per stake;
\* with a shortfall of 30 and stakes of 40 and 15 the 15 is deactivated as a
\* whole first and the 40 is then taken for the remaining 15.
C16_ShortfallSmallestStakeFirst ==
    /\ [](DeactivationAsStated /\ TwoStakesAsStated)
    /\ [][DeactivationAfterDeactivation => sub.source.stake <= sub'.source.stake]_vars

C16_Witness ==
    /\ FromTwoStakes
    /\ sub.pass = "stake_delta"
    /\ sub.source.stake = 40
    /\ sub.amount = 15
    /\ tally.accepted = 2
    /\ tally.applied = 2
    /\ ledger.state.total_cooling_down = 35

\* stake-delta has returned without a failed read, having read an imbalance
\* that is zero or positive and below min_stake
AllocatorHadNothingToDo ==
    /\ bot.passes = <<"sd_start">>
    /\ bot.pc \in {"sd_ret", "done"}
    /\ bot.pass_errors = 0
    /\ \/ bot.total_stake_delta = 0
       \/ bot.total_stake_delta > 0 /\ bot.total_stake_delta < bot.state.min_stake

\* update-price has returned without a failed read, having read no stake
\* whose last update is of an earlier epoch
CrankHadNothingToDo ==
    /\ bot.passes = <<"up_start">>
    /\ bot.pc \in {"up_ret", "done"}
    /\ bot.pass_errors = 0
    /\ ~some_needs_update(bot.stakes_info, clock.epoch)

\* C17: stake-delta run on an imbalance of zero, or positive and below
\* min_stake, and update-price run when no stake was last updated in an
\* earlier epoch, submit nothing and return success.
C17_NothingToDoIsSuccess ==
    (AllocatorHadNothingToDo \/ CrankHadNothingToDo) =>
        /\ tally.submitted = 0
        /\ sub = NoSub
        /\ bot.pass_result = "Ok(true)"
        /\ bot.result \in {"none", "Ok"}
        /\ ledger \in {scenario[3] : scenario \in CommandScenarios}

C17_Witness ==
    /\ AllocatorHadNothingToDo
    /\ bot.total_stake_delta = 5
    /\ bot.result = "Ok"

C17_WitnessCrank ==
    /\ CrankHadNothingToDo
    /\ bot.stakes_info # <<>>
    /\ bot.result = "Ok"

\* The table of update-price: the operation a stake is to get, "none" if it
\* is to get none.
CrankTable(record, epoch) ==
    IF record.last_update_epoch = epoch THEN "none"
    ELSE IF record.status \in {"warming", "partial", "active"}
    THEN IF record.stake # record.last_update_delegated_lamports
         THEN "update_active" ELSE "none"
    ELSE IF record.status = "deactivated" THEN "update_deactivated"
    ELSE "none"

\* the accounts of the stakes read by the pass that are to get an operation
CrankTargets ==
    {bot.stakes_info[k].record.stake_account :
        k \in {n \in 1..Len(bot.stakes_info) :
                 CrankTable(bot.stakes_info[n].record, clock.epoch) # "none"}}

\* C18: each operation of an update-price pass is the one its table gives for
\* the stake (none for a stake already updated this epoch, update_active for
\* a stake that is not deactivating and whose delegated amount differs from
\* the recorded one, update_deactivated for a deactivating stake with no
\* effective stake, none for one cooling down), no stake gets two, and a pass
\* that reaches the end of the list has given every such stake its operation.
C18_CrankFollowsTable ==
    /\ sub.pass = "update_price" =>
          /\ sub.ins.kind = CrankTable(sub.source.record, clock.epoch)
          /\ sub.ins.stake_account = sub.source.record.stake_account
          /\ ~sub.revisit
    /\ bot.pc \in {"up_loop", "up_ret"} => bot.visited \subseteq CrankTargets
    /\ (bot.pc = "up_ret" /\ bot.pass_result \in {"Ok(true)", "Ok(false)"}) =>
          bot.visited = CrankTargets

C18_Witness ==
    /\ bot.pc = "up_ret"
    /\ bot.pass_result = "Ok(true)"
    /\ Cardinality(bot.visited) = 2
    /\ \E k \in 1..Len(bot.stakes_info) : bot.stakes_info[k].record.status = "cooling"
    /\ \E k \in 1..Len(bot.stakes_info) :
          /\ bot.stakes_info[k].record.status = "deactivated"
          /\ bot.stakes_info[k].record.stake_account \in bot.visited
    /\ sub.ins.kind = "update_active"

\* the instructions of the batch that would hold the instruction last handed
\* to add_instruction: the open pack and the instruction, or the instruction
\* alone
WouldHold ==
    IF inside_transaction(last.before)
    THEN Append(InstructionsOf(last.before.current_instruction_pack.pack), last.arg)
    ELSE <<last.arg>>

\* that batch is over a ceiling that is set
OverCeiling ==
    /\ last.before.max_transaction_size > 0
    /\ SerializedLen(WouldHold) > last.before.max_transaction_size

\* every instruction held by the builder, in the open pack or a closed one
Held ==
    Range(InstructionsOf(Flatten(builder.instruction_packs)))
    \cup Range(InstructionsOf(builder.current_instruction_pack.pack))

\* after TooBigTransaction the builder is as before the call, and no
\* instruction that alone is over the ceiling is held
TooBigChangesNothing ==
    /\ (last.call = "add_instruction" /\ last.status = "TooBigTransaction") =>
          builder = last.before
    /\ builder.max_transaction_size > 0 =>
          \A ins \in Held : SerializedLen(<<ins>>) <= builder.max_transaction_size

\* C19 as stated: add_instruction returns TooBigTransaction exactly when the
\* ceiling is above zero and the batch that would hold the instruction is
\* over it, and then leaves the builder as it was.
C19_TooBigExactlyWhenOverCeiling ==
    /\ last.call = "add_instruction" =>
          (last.status = "TooBigTransaction" <=> OverCeiling)
    /\ TooBigChangesNothing

\* C19, amended: for an instruction whose signers are all registered,
\* add_instruction returns TooBigTransaction exactly when the ceiling is above
\* zero and the batch that would hold the instruction (the open pack and the
\* instruction, or the instruction alone) is over it; the open pack, the
\* closed packs and whether a pack is open are then as before the call, and no
\* instruction that alone is over the ceiling is ever held.
C19_TooBigExactlyWhenOverCeilingAndSigned ==
    /\ (last.call = "add_instruction" /\ check_signers(last.before, last.arg) = "ok") =>
          (last.status = "TooBigTransaction" <=> OverCeiling)
    /\ TooBigChangesNothing

C19_Witness ==
    /\ last.call = "add_instruction"
    /\ last.status = "TooBigTransaction"
    /\ inside_transaction(builder)
    /\ builder.current_instruction_pack.pack # <<>>
    /\ builder.instruction_packs # <<>>
    /\ SerializedLen(<<last.arg>>) <= builder.max_transaction_size

\* the instruction last handed to add_instruction names a signer that was
\* not registered with the builder
SignerMissing ==
    /\ last.call = "add_instruction"
    /\ last.arg.is_signer
    /\ last.arg.account \notin last.before.signature_builder

\* C20: add_instruction of an instruction that needs a signer not registered
\* with the builder returns UnknownSigner, and only then; the builder (open
\* pack, closed packs, whether a pack is open) is as before the call, so no
\* pack was opened by the call.
C20_UnknownSignerChangesNothing ==
    /\ SignerMissing => last.status = "UnknownSigner"
    /\ last.status = "UnknownSigner" => SignerMissing /\ builder = last.before

C20_Witness ==
    /\ SignerMissing
    /\ last.status = "UnknownSigner"
    /\ ~inside_transaction(builder)
    /\ builder.instruction_packs # <<>>
    /\ builder.max_transaction_size > 0
    /\ SerializedLen(<<last.arg>>) > builder.max_transaction_size

\* the pair that add_instruction pushes for the instruction last handed to it
PairAdded == [ins |-> last.arg, desc |-> last.arg.serial]

\* C21: a successful add_instruction with no pack open appends one new pack
\* holding just the instruction at the tail of the closed packs and leaves no
\* pack open; with a pack open it appends the instruction at the end of the
\* open pack and leaves the closed packs as they were.
C21_AddAppendsToOpenOrNewPack ==
    (last.call = "add_instruction" /\ last.status = "ok") =>
        IF inside_transaction(last.before)
        THEN /\ builder.current_instruction_pack =
                   SomePack(Append(last.before.current_instruction_pack.pack, PairAdded))
             /\ builder.instruction_packs = last.before.instruction_packs
        ELSE /\ builder.instruction_packs =
                   Append(last.before.instruction_packs, <<PairAdded>>)
             /\ builder.current_instruction_pack = NoPack

\* an instruction was added on its own after a pack was closed, and then
\* another into a pack opened by begin
C21_Witness ==
    /\ last.call = "add_instruction"
    /\ last.status = "ok"
    /\ inside_transaction(last.before)
    /\ Len(builder.current_instruction_pack.pack) = 2
    /\ Len(builder.instruction_packs) = 1
    /\ Len(builder.instruction_packs[1]) = 1

C21_WitnessNoPackOpen ==
    /\ last.call = "add_instruction"
    /\ last.status = "ok"
    /\ ~inside_transaction(last.before)
    /\ Len(builder.instruction_packs) = 2

\* C22: there is one cell for the open pack; begin with a pack open fails
\* (panics) and leaves the open pack and the closed packs as they were, and
\* commit and rollback fail (panic) exactly when no pack is open, changing
\* nothing.
C22_OneOpenPack ==
    /\ last.call = "begin" =>
          /\ last.status = "panic" <=> inside_transaction(last.before)
          /\ last.status = "panic" => builder = last.before
          /\ last.status = "ok" =>
                /\ builder.current_instruction_pack = SomePack(<<>>)
                /\ builder.instruction_packs = last.before.instruction_packs
    /\ last.call \in {"commit", "rollback"} =>
          /\ last.status = "panic" <=> ~inside_transaction(last.before)
          /\ last.status = "panic" => builder = last.before

C22_Witness ==
    /\ last.call = "begin"
    /\ last.status = "panic"
    /\ builder.current_instruction_pack.pack # <<>>
    /\ builder.instruction_packs # <<>>

C22_WitnessCommit ==
    /\ last.call = "commit"
    /\ last.status = "panic"
    /\ builder.instruction_packs # <<>>

\* build_next returned the pack at the head of the closed packs and removed
\* it, or returned None leaving the builder as it was
ReturnedHeadOrNone ==
    /\ last.status = "ok"
    /\ IF last.before.instruction_packs = <<>>
       THEN last.tx = NoneTx /\ builder = last.before
       ELSE /\ last.tx = PreparedTransaction(
                             InstructionsOf(Head(last.before.instruction_packs)),
                             DescriptionsOf(Head(last.before.instruction_packs)))
            /\ builder.instruction_packs = Tail(last.before.instruction_packs)
            /\ builder.current_instruction_pack = last.before.current_instruction_pack

\* commit put the open pack at the tail of the closed packs
CommittedAtTail ==
    (last.call = "commit" /\ last.status = "ok") =>
        builder.instruction_packs =
            Append(last.before.instruction_packs, last.before.current_instruction_pack.pack)

\* C23 as stated: every build_next returns the oldest closed pack, removing
\* it, and returns None exactly when there is no closed pack.
C23_BuildNextIsFifo ==
    /\ last.call = "build_next" => ReturnedHeadOrNone
    /\ CommittedAtTail

\* C23, amended: commit puts the open pack at the tail of the closed packs;
\* build_next called while no instruction is held in an open pack returns the
\* closed pack at the head, removing it (so the packs come out in the order
\* of their commits, each once), and returns None exactly when there is no
\* closed pack; called while an open pack holds an instruction it panics and
\* changes nothing.
C23_BuildNextIsFifoWhenCommitted ==
    /\ (last.call = "build_next" /\ ~NotCommitted(last.before)) => ReturnedHeadOrNone
    /\ (last.call = "build_next" /\ NotCommitted(last.before)) =>
          last.status = "panic" /\ builder = last.before
    /\ CommittedAtTail

C23_Witness ==
    /\ last.call = "build_next"
    /\ last.status = "ok"
    /\ Len(last.before.instruction_packs) = 3
    /\ Head(last.before.instruction_packs) # last.before.instruction_packs[3]
    /\ last.tx.is_some
    /\ Len(builder.instruction_packs) = 2

\* the serial numbers of the instructions the builder holds
HeldSerials == {i.serial : i \in Held}

\* the serial numbers of the instructions of the open pack rolled back
Discarded == {i.serial : i \in Range(InstructionsOf(last.before.current_instruction_pack.pack))}

\* rollback left everything but the open pack as it was
RollbackOnlyDropsOpenPack ==
    (last.call = "rollback" /\ last.status = "ok") =>
        /\ builder = [last.before EXCEPT !.current_instruction_pack = NoPack]
        /\ builder.instruction_packs = last.before.instruction_packs
        /\ ~inside_transaction(builder)
        /\ Discarded \cap HeldSerials = {}

\* an instruction added earlier that the builder no longer holds is never
\* held again, and a unit built is made of instructions held until then
GoneStaysGone ==
    /\ \A s \in 1..nadded : s \notin HeldSerials => s \notin HeldSerials'
    /\ last'.tx.is_some =>
          {i.serial : i \in Range(last'.tx.instructions)} \subseteq HeldSerials

\* C24: rollback discards the open pack and nothing else: the closed packs,
\* the signers and the ceiling are as before, no pack is open afterwards, and
\* no instruction of the discarded pack is in any unit built later.
C24_RollbackDiscardsOpenPackOnly ==
    [] RollbackOnlyDropsOpenPack /\ [][GoneStaysGone]_vars

C24_Witness ==
    /\ last.call = "rollback"
    /\ last.status = "ok"
    /\ Len(last.before.current_instruction_pack.pack) = 2
    /\ Len(builder.instruction_packs) = 1

\* the unit the last call returned, if it returned one
UnitReturned ==
    /\ last.call \in {"build_next", "build_next_combined"}
    /\ last.status = "ok"
    /\ last.tx.is_some

WithinCeiling(instructions) ==
    builder.max_transaction_size > 0 =>
        SerializedLen(instructions) <= builder.max_transaction_size

\* the unit is as large as it can be: no closed pack is left, or the unit
\* with the next closed pack would be over the ceiling
GreedyMaximal ==
    \/ builder.instruction_packs = <<>>
    \/ SerializedLen(last.tx.instructions \o InstructionsOf(Head(builder.instruction_packs)))
          > builder.max_transaction_size

\* C25 as stated: under a ceiling > 0 the unit build_next_combined returns is
\* within the ceiling and greedy-maximal; under ceiling 0 it holds every closed
\* pack.
C25_CombinedWithinCeilingAndMaximal ==
    (UnitReturned /\ last.call = "build_next_combined") =>
        IF builder.max_transaction_size > 0
        THEN WithinCeiling(last.tx.instructions) /\ GreedyMaximal
        ELSE /\ last.tx.instructions = InstructionsOf(Flatten(last.before.instruction_packs))
             /\ builder.instruction_packs = <<>>

\* C26 as stated: every closed pack, and every unit build_next or
\* build_next_combined returns, holds at least one instruction and is within
\* a ceiling > 0.
C26_ClosedPacksNonEmptyWithinCeiling ==
    /\ \A i \in 1..Len(builder.instruction_packs) :
          /\ builder.instruction_packs[i] # <<>>
          /\ WithinCeiling(InstructionsOf(builder.instruction_packs[i]))
    /\ UnitReturned =>
          /\ last.tx.instructions # <<>>
          /\ WithinCeiling(last.tx.instructions)

\* a tick at its start, inside the stake-delta window, with an imbalance that
\* is neither zero nor a surplus under min_stake
ActionableTick ==
    /\ bot.pc = "main"
    /\ InStakeDeltaWindow(clock, bot.state)
    /\ Actionable(stake_delta(bot.state, ledger.reserve), bot.state)

\* more validators with a score than extra runs allowed, past the middle of
\* the window
ExtraRunsDue ==
    /\ Cardinality({i \in 1..Len(ledger.validators) : ledger.validators[i].score # 0})
          > bot.state.extra_stake_delta_runs
    /\ clock.slot > stake_window_start_slot(clock, bot.state)
                       + bot.state.slots_for_stake_delta \div 2

\* this step submits the request for extra runs, one instruction in one unit
ExtraRunsRequested ==
    /\ tally'.submitted = tally.submitted + 1
    /\ sub'.pass = "do_work"
    /\ sub'.ins.kind = "config_validator_system"
    /\ Len(last'.tx.instructions) = 1

ExtraRunsAsStated ==
    /\ (ActionableTick /\ bot'.pc \in {"ask_extra_runs", "sd_start"}) =>
          (bot'.pc = "ask_extra_runs" <=> ExtraRunsDue)
    /\ (bot.pc = "ask_extra_runs" /\ bot' # bot) =>
          ExtraRunsRequested /\ bot'.pc = "sd_start"
    /\ (tally'.submitted # tally.submitted /\ sub'.pass = "do_work") =>
          /\ bot.pc = "ask_extra_runs"
          /\ tally.submitted = 0
          /\ bot.passes = <<>>

\* C27 as stated: a tick inside the stake-delta window with an actionable
\* imbalance submits the request for extra runs exactly when the validators
\* with a score outnumber the extra runs allowed and the slot is past the
\* middle of the window; the request is one instruction, submitted once, before
\* anything stake-delta submits, and stake-delta is started after it.
C27_ExtraRunsRequestedWhenDue == [][ExtraRunsAsStated]_vars

\* the submissions made so far by the pass the bot is inside of or has just
\* returned from
SubmittedInPass == AcceptedInPass + RejectedInPass

InsideOrAfterAllocator == bot.pc \in AllocatorLoop \cup {"sd_ret"}

InsideOrAfterMerge == bot.pc \in {"ms_loop", "ms_ret"}

\* C28 as stated: under --limit L > 0 neither a stake-delta pass nor a
\* merge-stakes pass submits more than L transactions.
C28_LimitBoundsSubmissions ==
    (opts.limit > 0 /\ (InsideOrAfterAllocator \/ InsideOrAfterMerge)) =>
        SubmittedInPass <= opts.limit

(***************************************************************************)
(* A tick whose reads go through get_account_retrying: the loop around     *)
(* get_account_with_commitment, which on an RPC error warns and calls      *)
(* again. bot.rpc is the place in that loop. The bot is one thread that    *)
(* keeps running, so a step that can be taken is taken (weak fairness).    *)
(***************************************************************************)
RetryingReadPoints == TickReadPoints \cup PassReadPoints

\* get_account_with_commitment returns Err
RpcError ==
    /\ bot.pc \in RetryingReadPoints
    /\ bot.rpc = "ready"
    /\ bot' = [bot EXCEPT !.rpc = "warned"]
    /\ NoSubmit
    /\ UNCHANGED <<clock, opts>>

\* warn!("RPC error {}. Retrying"), and round the loop
RpcRetry ==
    /\ bot.rpc = "warned"
    /\ bot' = [bot EXCEPT !.rpc = "ready"]
    /\ NoSubmit
    /\ UNCHANGED <<clock, opts>>

\* The ticks looked at for termination: every stake-delta ledger at every
\* slot, and before the window the stake lists made of three kinds of account.
ReturningTemplates ==
    { <<1, "active", 15, 15, 7, 4>>,
      <<1, "active", 16, 15, 7, 4>>,
      <<2, "active", 25, 25, 7, 4>> }

ReturningLedgers ==
    { MakeLedger(MakeStakes(list), <<100, 100>>, <<4, 4>>, 0, 0, 0) :
        list \in StakeLists(ReturningTemplates) }

ReturningScenarios ==
    ((StakeDeltaSlots \cup AccrualSlots) \X StakeDeltaLedgers)
    \cup ({1098, 1118} \X ReturningLedgers)
    \cup ({1120} \X ExampleLedgers)

InitReturning == InitFrom(ReturningScenarios)

NextRetrying ==
    \/ bot.rpc = "ready" /\ Next
    \/ RpcError
    \/ RpcRetry

SpecRetrying == InitReturning /\ [][NextRetrying]_vars /\ WF_vars(NextRetrying)

\* C29 as stated: every read of a tick returns, with a value or with an error,
\* so the tick comes to its end even if the RPC node keeps answering with
\* errors.
C29_TickTerminates == <>(bot.pc = "done")

(***************************************************************************)
(* The tick with every read and every submission returning: the bot is one *)
(* thread, so the step it is at is taken (weak fairness of its steps).     *)
(***************************************************************************)
SpecReturning == InitReturning /\ [][Next]_vars /\ WF_vars(Next)

\* this step is a submission made from the loop at `pc`
SubmitsIn(pc) == bot.pc = pc /\ tally'.submitted = tally.submitted + 1

\* the stake accounts of the snapshot the pass works from
SnapshotAccounts ==
    {bot.stakes_info[k].record.stake_account : k \in 1..Len(bot.stakes_info)}

\* the accounts a merge-stakes pass can take as the source of a merge
MergeSources ==
    {bot.mergeable_stakes[k].address : k \in 2..Len(bot.mergeable_stakes)}

\* the step adds to bot.visited one account of `accounts`, the one its
\* transaction is about, that was not there
VisitsNew(accounts) ==
    /\ ~sub'.revisit
    /\ \E a \in accounts \ bot.visited :
          /\ a \in {sub'.ins.stake_account, sub'.ins.source_account}
          /\ bot'.visited = bot.visited \cup {a}

\* every submission of a pass is about a validator (surplus), a stake account
\* of the snapshot (shortfall, update-price) or a source of the mergeable
\* list (merge-stakes) that no earlier submission of the pass was about
OneMorePerTarget ==
    /\ SubmitsIn("sd_surplus") =>
          \E v \in 1..Len(ledger.validators) \ bot.deposited :
              /\ sub'.ins.kind = "stake_reserve"
              /\ sub'.ins.validator_index = v
              /\ bot'.deposited = bot.deposited \cup {v}
    /\ SubmitsIn("sd_short_s") => VisitsNew(SnapshotAccounts)
    /\ SubmitsIn("up_loop") => VisitsNew(SnapshotAccounts)
    /\ SubmitsIn("ms_loop") => VisitsNew(MergeSources)
    /\ (tally'.submitted # tally.submitted /\ sub'.pass \in Passes) =>
          /\ bot.pc \in PassLoops
          /\ bot'.pc \in PassLoops \cup {"sd_ret"}
          /\ bot'.deposited \subseteq bot.deposited \/ bot.pc = "sd_surplus"
    /\ (bot.pc \in PassLoops /\ bot'.pc \in PassLoops) =>
          bot.visited \subseteq bot'.visited /\ bot.deposited \subseteq bot'.deposited

\* C30: with every read and submission returning, each pass submits one
\* transaction at most for each validator (surplus), each stake account of a
\* validator (shortfall), each stake account (update-price), and at most n - 1
\* merges for n mergeable accounts, and the tick comes to its end.
C30_PassesBoundedAndEnd == [][OneMorePerTarget]_vars /\ <>(bot.pc = "done")

C30_Witness ==
    /\ bot.pc = "done"
    /\ bot.passes # <<>>
    /\ bot.passes[Len(bot.passes)] = "ms_start"
    /\ Len(bot.mergeable_stakes) = 3
    /\ SubmittedInPass = 2

(***************************************************************************)
(* Ticks one after the other. The bot keeps nothing between ticks: the     *)
(* process is stopped wherever it is (cron kills it, or it has returned)   *)
(* and a new process is started later, which builds its RpcMarinade, its   *)
(* builder and its clock anew (do_work.rs:35-48). Nothing but the bot      *)
(* changes the ledger.                                                     *)
(***************************************************************************)
MaxTicks == 2

PositivePart(x) == IF x > 0 THEN x ELSE 0

\* delta == 0, no position that update-price has not dealt with in this
\* epoch, and no two positions that merge-stakes would merge
Quiet(L, epoch) ==
    /\ stake_delta(L.state, L.reserve) = 0
    /\ \A i \in 1..Len(L.stakes) : L.stakes[i].last_update_epoch >= epoch
    /\ LET mergeable == mergeable_stakes(stakes_info(L), validator_list(L))
       IN ~\E i \in 1..Len(mergeable), j \in 1..Len(mergeable) :
             j < i /\ MergePairMatches(mergeable[j], mergeable[i])

\* The process at the start of tick number `tick`; imbalance0 is the positive
\* imbalance before the first tick, submitted0 the number of submissions of
\* the ticks before this one, quiet whether the tick starts on a quiet ledger.
TickInit(L, clk, tick, imbalance0, submitted0) ==
    [pc |-> "main", result |-> "none", pass_result |-> "none", passes |-> <<>>,
     state |-> L.state,
     validators_info |-> <<>>, stakes_info |-> <<>>, validator_stakes |-> <<>>,
     i |-> 0, j |-> 0,
     count_tx_ok |-> 0, count_tx_err |-> 0, count_processed |-> 0,
     total_to_unstake |-> 0, sum_maybe_deactivated_total |-> 0,
     sum_maybe_deactivated_this_validator |-> 0,
     to_unstake_from_validator |-> 0, left_to_unstake_from_validator |-> 0,
     mergeable_stakes |-> <<>>, merge_start |-> 0, max_seconds |-> 0,
     read_at |-> submitted0, accepted0 |-> 0, rejected0 |-> 0, visited |-> {},
     pass_errors |-> 0,
     throttled |-> {}, max_run_seconds |-> max_run_seconds, total_stake_delta |-> 0,
     rpc |-> "ready", deposited |-> {},
     tick |-> tick, imbalance0 |-> imbalance0, submitted0 |-> submitted0,
     quiet |-> Quiet(L, clk.epoch)]

TickSlots == {1098, 1118, 1120, 1160}

\* a surplus of 100 or none, and a shortfall of 30
TickStakeDeltaLedgers ==
    { MakeLedger(SurplusStakes, <<100, 100, 100>>, last_runs, extra_runs, excess, 0) :
        last_runs \in {<<4, 4, 4>>, <<5, 4, 4>>}, extra_runs \in {0, 1},
        excess \in {0, 100} }
    \cup
    { MakeLedger(ShortfallStakes, <<100, 100, 100>>, <<4, 4, 4>>, extra_runs, 0, 30) :
        extra_runs \in {0, 1} }

\* stake lists with positions to update and pairs to merge
TickStakeLists ==
    { <<>>,
      << <<1, "active", 16, 15, 7, 4>> >>,
      << <<1, "active", 15, 15, 7, 4>>, <<1, "active", 16, 15, 7, 4>> >>,
      << <<1, "active", 15, 15, 7, 4>>, <<2, "active", 25, 25, 7, 4>>,
         <<1, "active", 15, 15, 7, 4>> >>,
      << <<1, "active", 16, 15, 7, 4>>, <<1, "active", 15, 15, 7, 4>>,
         <<1, "active", 15, 15, 7, 4>> >> }

TickAccrualLedgers ==
    { MakeLedger(MakeStakes(list), <<100, 100>>, <<4, 4>>, 0, 0, 0) :
        list \in TickStakeLists }

TickScenarios ==
    ({1098, 1120} \X TickStakeDeltaLedgers)
    \cup ({1098, 1118} \X TickAccrualLedgers)
    \cup ({1120} \X {ScarceSurplusLedger})

InitTicks ==
    /\ \E scenario \in TickScenarios :
          /\ clock = ClockAt(scenario[1])
          /\ ledger = scenario[2]
    /\ opts \in [limit : {0, MaxLimit}, simulate : BOOLEAN]
    /\ bot = TickInit(ledger, clock, 1,
                      PositivePart(stake_delta(ledger.state, ledger.reserve)), 0)
    /\ now = 0
    /\ sub = NoSub
    /\ tally = TallyInit
    /\ builder = NewBuilder(PACKET_DATA_SIZE)
    /\ last = [call |-> "new", arg |-> NoArg, before |-> builder, status |-> "ok", tx |-> NoneTx]
    /\ nadded = 0

\* the process is stopped, wherever it is, and a new one is started at the
\* same slot or at a later one
NewTick ==
    /\ bot.tick < MaxTicks
    /\ \E slot \in TickSlots :
          /\ slot >= clock.slot
          /\ clock' = ClockAt(slot)
    /\ bot' = TickInit(ledger, clock', bot.tick + 1, bot.imbalance0, tally.submitted)
    /\ now' = 0
    /\ builder' = NewBuilder(PACKET_DATA_SIZE)
    /\ last' = [call |-> "new", arg |-> NoArg, before |-> builder', status |-> "ok",
                tx |-> NoneTx]
    /\ UNCHANGED <<nadded, ledger, opts, sub, tally>>

NextTicks ==
    \/ Next
    \/ NewTick

SpecTicks == InitTicks /\ [][NextTicks]_vars

C31_WitnessQuiet ==
    /\ bot.tick = 2
    /\ bot.pc = "done"
    /\ bot.quiet
    /\ bot.submitted0 > 0
    /\ "ms_start" \in Range(bot.passes)

(***************************************************************************)
(* The imbalance on its own: the reserve balance and the three fields of   *)
(* the State account that State::stake_delta reads take any u64 value, and *)
(* the bot reads the balance and works the imbalance out (do_work.rs:88-91,*)
(* stake_delta.rs:76-79).                                                  *)
(***************************************************************************)
Words == {0, 1, 2, 30, U64_MAX - 1, U64_MAX}

ImbalanceLedgers ==
    { [IdleLedger EXCEPT !.reserve = reserve_balance,
                         !.state.rent_exempt_for_token_acc = rent_exempt,
                         !.state.total_cooling_down = cooling_down,
                         !.state.circulating_ticket_balance = tickets] :
        reserve_balance \in Words, rent_exempt \in Words,
        cooling_down \in Words, tickets \in Words }

InitImbalance ==
    /\ ledger \in ImbalanceLedgers
    /\ clock = ClockAt(1120)
    /\ opts \in [limit : {0}, simulate : {FALSE}]
    /\ bot = [BotInit(ledger) EXCEPT !.pc = "read_delta"]
    /\ now = 0
    /\ sub = NoSub
    /\ tally = TallyInit
    /\ builder = NewBuilder(PACKET_DATA_SIZE)
    /\ last = [call |-> "new", arg |-> NoArg, before |-> builder, status |-> "ok", tx |-> NoneTx]
    /\ nadded = 0

\* get_balance(reserve_address) and marinade.state.stake_delta(reserve_balance)
ReadDelta ==
    /\ bot.pc = "read_delta"
    /\ bot' = [bot EXCEPT !.pc = "delta_read",
                          !.total_stake_delta = stake_delta(bot.state, ledger.reserve)]
    /\ NoSubmit
    /\ UNCHANGED <<clock, opts>>

NextImbalance == ReadDelta

SpecImbalance == InitImbalance /\ [][NextImbalance]_vars

ShortfallTurn == bot.validators_info[bot.i]

\* a step that submits a deactivate_stake
Retires ==
    /\ tally'.submitted = tally.submitted + 1
    /\ sub'.ins.kind = "deactivate_stake"

\* the head of a validator's turn: with the delta of the ledger at 0 or
\* above the pass stops; a turn that goes on to the stakes aims at
\* min(-need, shortfall), the shortfall being that of the ledger now
TurnAsStated ==
    (bot.pc = "sd_short_v" /\ bot'.pc # "sd_short_v") =>
        LET delta == stake_delta(ledger.state, ledger.reserve)
        IN /\ delta >= 0 => bot'.pc = "sd_ret"
           /\ bot'.pc = "sd_short_s" =>
                /\ ShortfallTurn.stake_delta < 0
                /\ bot'.to_unstake_from_validator = Min(-ShortfallTurn.stake_delta, -delta)

\* a deactivate_stake is for the validator of this turn, whose need is
\* below 0 and not below the need of a validator that came before it, and
\* is submitted only while the amount taken as retired is short of the aim
RetireAsStated ==
    Retires =>
        /\ sub'.ins.validator_index = ShortfallTurn.index
        /\ ShortfallTurn.stake_delta < 0
        /\ \A k \in 1..(bot.i - 1) :
              bot.validators_info[k].stake_delta <= ShortfallTurn.stake_delta
        /\ bot.sum_maybe_deactivated_this_validator < bot.to_unstake_from_validator

\* C33: the shortfall path takes the validators in ascending order of need,
\* never retires from a validator whose need is >= 0, stops retiring from a
\* validator once the amount estimated as retired reaches min(-need,
\* shortfall re-read at the start of its turn), and stops the pass once the
\* re-read delta is >= 0.
C33_ShortfallByAscendingNeed == [][TurnAsStated /\ RetireAsStated]_vars

\* validator 2 (need -30) had its two stakes of 15 retired and its stake of
\* 40 left alone; validator 1 (need -10) comes after it, and the shortfall
\* re-read at its turn is 10
C33_Witness ==
    /\ bot.pc = "sd_short_s"
    /\ bot.i = 2
    /\ Len(bot.validators_info) = 2
    /\ ledger.validators[2].active_balance = 40
    /\ ShortfallTurn.index = 1
    /\ ShortfallTurn.stake_delta = -10
    /\ bot.validators_info[1].stake_delta = -30
    /\ bot.to_unstake_from_validator = 10
    /\ sub.ins.kind = "deactivate_stake"
    /\ sub.ins.validator_index = 1
    /\ tally.accepted = 3

\* a step that submits a merge_stakes
Merges ==
    /\ tally'.submitted = tally.submitted + 1
    /\ sub'.ins.kind = "merge_stakes"

\* the stake list holds `account`, delegated with no deactivation epoch set,
\* and either warming up (nothing effective in this epoch) or fully active
\* (something effective, nothing activating, nothing deactivating)
WarmingUpOrFullyActive(L, account) ==
    \E i \in 1..Len(L.stakes) :
        /\ L.stakes[i].stake_account = account
        /\ NotDeactivating(L.stakes[i])
        /\ LET status == stake_activating_and_deactivating(L.stakes[i])
           IN \/ status.effective = 0
              \/ status.effective > 0 /\ status.activating = 0 /\ status.deactivating = 0

MergeOfMergeableKinds ==
    Merges =>
        /\ WarmingUpOrFullyActive(ledger, sub'.ins.stake_account)
        /\ WarmingUpOrFullyActive(ledger, sub'.ins.source_account)

\* C34: the destination and the source of every merge operation are
\* delegated with no deactivation epoch set and either warming up or fully
\* active: a partially activated, cooling or deactivated position is never
\* named in a merge.
C34_OnlyMergeableKindsMerged == [][MergeOfMergeableKinds]_vars

\* two warming stakes are merged past a partially activated stake of the
\* same validator with the same credits, which stays in the list
C34_Witness ==
    /\ sub.ins.kind = "merge_stakes"
    /\ sub.outcome = "accepted"
    /\ sub.source.kind = "ActivationEpoch"
    /\ \E i \in 1..Len(ledger.stakes) :
          /\ ledger.stakes[i].status = "partial"
          /\ ledger.stakes[i].voter = sub.source.voter
          /\ ledger.stakes[i].credits_observed = sub.source.credits_observed

\* the submission before this one was a merge of the same pass
MergedBeforeInPass ==
    /\ tally.submitted > bot.read_at
    /\ sub.ins.kind = "merge_stakes"

MergeScanAsStated ==
    Merges =>
        /\ sub'.ins.source_index > sub'.ins.stake_index
        /\ MergedBeforeInPass => sub'.ins.source_index < sub.ins.source_index
        /\ \A k \in 1..Len(bot.mergeable_stakes) :
              bot.mergeable_stakes[k].index < sub'.ins.stake_index
                  => ~MergePairMatches(bot.mergeable_stakes[k], sub'.source)

\* C35: the source of every merge operation has a greater list index than
\* its destination; within a pass the sources go down the list, so that a
\* position is the source of one merge at most; the destination is the
\* compatible position of lowest index.
C35_MergeSourcesDownDestinationLowest == [][MergeScanAsStated]_vars

\* the second merge of a pass over three stakes: the first had source 3,
\* this one has source 2, both into the stake at index 1
C35_Witness ==
    /\ bot.pc = "ms_loop"
    /\ Len(bot.mergeable_stakes) = 3
    /\ tally.submitted = bot.read_at + 2
    /\ sub.ins.kind = "merge_stakes"
    /\ sub.ins.source_index = 2
    /\ sub.ins.stake_index = 1

\* the instructions of the open pack and of the closed packs
HeldInstructions(b) ==
    InstructionsOf(Flatten(b.instruction_packs) \o b.current_instruction_pack.pack)

BuildCalls == {"build_next", "build_next_combined"}

\* C36: after any sequence of add_signer, new_signer, begin,
\* add_instruction, commit and rollback calls (and of build calls), every
\* instruction in the open pack or in a closed pack has its signer in the
\* builder, and a build call panics only on an uncommitted pack, never on
\* a missing signer.
C36_HeldInstructionsAreSigned ==
    /\ \A i \in 1..Len(HeldInstructions(builder)) :
          HeldInstructions(builder)[i].is_signer
              => HeldInstructions(builder)[i].account \in builder.signature_builder
    /\ (last.call \in BuildCalls /\ last.status = "panic") => NotCommitted(last.before)

\* a transaction is built from a pack that holds an instruction signed by
\* the key of add_signer and one signed by the key of new_signer
C36_Witness ==
    /\ last.call \in BuildCalls
    /\ last.status = "ok"
    /\ last.tx.is_some
    /\ {2, GeneratedKey} \subseteq
          {last.tx.instructions[i].account : i \in 1..Len(last.tx.instructions)}
    /\ {2, GeneratedKey} \subseteq builder.signature_builder

\* total_active_balance + delta does not fit a u64
TargetOverflows(L) ==
    LET total_stake_target ==
            L.state.total_active_balance + stake_delta(L.state, L.reserve)
    IN total_stake_target < 0 \/ total_stake_target > U64_MAX

\* C37: when total_active_balance + delta does not fit a u64 (the shortfall
\* exceeds the total active balance), stake-delta returns an error, and it
\* has built and submitted nothing.
C37_OverflowIsAnErrorBeforeAnyOperation ==
    (TargetOverflows(ledger) /\ bot.pc # "sd_start") =>
        /\ bot.pc \in {"sd_ret", "done"}
        /\ bot.pass_result = "Err"
        /\ tally.submitted = 0
        /\ nadded = 0
        /\ builder = NewBuilder(PACKET_DATA_SIZE)

\* the command has returned the error on the ledger whose commitments (100)
\* exceed the reserve above its floor and the active balance (65) together
C37_Witness ==
    /\ ledger = InsolventLedger
    /\ bot.total_stake_delta = -100
    /\ bot.pc = "done"
    /\ bot.result = "Err"
    /\ bot.pass_errors = 1

\* C38 as stated: the instruction_descriptions of a unit returned by
\* build_next or build_next_combined have the length and the order of the
\* unit's instructions: description i is the one added with instruction i.
C38_DescriptionsMatchInstructions ==
    (UnitReturned /\ last.call \in BuildCalls) =>
        /\ Len(last.tx.instruction_descriptions) = Len(last.tx.instructions)
        /\ \A i \in 1..Len(last.tx.instructions) :
              last.tx.instruction_descriptions[i] = last.tx.instructions[i].serial

\* no pack is open and the closed queue is empty
BuilderAtRest(b) ==
    /\ ~b.current_instruction_pack.is_some
    /\ b.instruction_packs = <<>>

\* C39: between two submissions of a tick the builder has no open pack and no
\* closed pack, so that begin, the operations, commit and build_one succeed
\* from there; the unit of a build_one call was built on such a builder and
\* holds exactly the operations added in that loop iteration.
C39_BuildOneHasOnePack ==
    /\ BuilderAtRest(builder)
    /\ BuildUnit(builder, nadded, <<FeePayer>>).status = "ok"
    /\ last.call = "build_one" =>
          /\ BuilderAtRest(last.before)
          /\ last.status = "ok"
          /\ last.tx.is_some
          /\ last.tx.instructions # <<>>
          /\ \A i \in 1..Len(last.tx.instructions) :
                last.tx.instructions[i].serial
                    = nadded - Len(last.tx.instructions) + i

\* the Allocator's build_one was accepted after the request for extra runs
\* (the one submission before the pass) and a submission of the pass had
\* been rejected
C39_Witness ==
    /\ last.call = "build_one"
    /\ sub.pass = "stake_delta"
    /\ sub.outcome = "accepted"
    /\ bot.accepted0 + bot.rejected0 = 1
    /\ bot.rejected0 = 1
    /\ tally.rejected >= 2

LastSequence == last.call = "combined_sequence"

\* the iteration ended with None after at most as many units as there were
\* closed packs, no closed pack is left, and the units' instructions are the
\* closed packs' instructions in the order of the commits
DrainedInOrder ==
    /\ last.status = "ok"
    /\ last.tx.units <= Len(last.before.instruction_packs)
    /\ builder.instruction_packs = <<>>
    /\ builder.current_instruction_pack = last.before.current_instruction_pack
    /\ last.tx.instructions = InstructionsOf(Flatten(last.before.instruction_packs))

\* C40 as stated: iterating combined_sequence until None ends after at most as
\* many units as there were closed packs, leaves no closed pack, and yields
\* the closed packs' instructions in commit order, none lost, duplicated or
\* reordered.
C40_SequenceDrainsTheQueue ==
    LastSequence => DrainedInOrder

\* C40, amended: that holds when the iteration starts while no instruction is
\* held in an open pack; started while an open pack holds an instruction, the
\* first next() panics: no unit is yielded and the builder is unchanged.
C40_SequenceDrainsTheQueueWhenCommitted ==
    /\ (LastSequence /\ ~NotCommitted(last.before)) => DrainedInOrder
    /\ (LastSequence /\ NotCommitted(last.before)) =>
          /\ last.status = "panic"
          /\ last.tx.units = 0
          /\ builder = last.before

\* three closed packs were yielded as two units
C40_Witness ==
    /\ LastSequence
    /\ last.status = "ok"
    /\ Len(last.before.instruction_packs) = 3
    /\ last.tx.units = 2
    /\ Len(last.tx.instructions) = 3

====
